---- MODULE Spec2Model ----
(***************************************************************************)
(* Reprogramacion de reservas (reservas/): almacen de reglas, resolucion   *)
(* de la regla activa, validador dinamico, validacion del serializador y   *)
(* las dos vistas que confirman una reprogramacion.                        *)
(*                                                                         *)
(* Tiempo: enteros en horas; la hora 0 es un lunes a las 00:00.            *)
(* Valores numericos de regla: en centesimas (24 -> 2400, 5.00 -> 500).    *)
(***************************************************************************)
EXTENDS Integers, Sequences, FiniteSets, TLC

NULL == "NULL"
\* campo entero o fecha anulable: None = <<>>, valor x = <<x>>
None == <<>>
Some(x) == <<x>>

\* ------------------------------------------------------------------ cotas
MaxPeticiones == 2
MaxReglasAlmacen == 2

\* ------------------------------------------------- fechas (datetime)
Fecha(t) == t \div 24
Hora(t) == t % 24
DiaSemana(t) == (t \div 24) % 7
nombres_dias == <<"lunes", "martes", "miercoles", "jueves", "viernes", "sabado", "domingo">>
DosAnios == 730 * 24

\* ------------------------------------------------- usuarios y roles
Usuarios == {"cli", "adm"}
RolesDe(u) ==
  CASE u = "cli" -> <<"CLIENTE">>
    [] u = "adm" -> <<"ADMIN">>
    [] u = "ope" -> <<"CLIENTE", "OPERADOR">>
    [] OTHER -> <<>>

EnSeq(x, s) == \E i \in 1..Len(s) : s[i] = x

\* ------------------------------------------- reservas y sus detalles
ReservaIds == {1, 2, 3}
ServiciosOrden == <<"s1", "s2">>
Servicios == {"s1", "s2"}
\* ReservaServicio: cantidad por (reserva, servicio); 0 = sin linea
Detalles(b) ==
  CASE b = 1 -> [s \in Servicios |-> IF s = "s1" THEN 1 ELSE 0]
    [] b = 2 -> [s \in Servicios |-> IF s = "s1" THEN 3 ELSE 1]
    [] OTHER -> [s \in Servicios |-> IF s = "s2" THEN 1 ELSE 0]
ServiciosDe(b) == {s \in Servicios : Detalles(b)[s] > 0}
\* paquete.max_personas del paquete del servicio; 0 = servicio sin paquete
MaxPersonas(s) == IF s = "s1" THEN 2 ELSE 0
Propietario(b) == IF b = 3 THEN "adm" ELSE "cli"
FechaInicial(b) == CASE b = 1 -> 82 [] b = 2 -> 106 [] OTHER -> 58
TotalDe(b) == 1000
EstadosActivos == {"PENDIENTE", "PAGADA", "REPROGRAMADA"}

ReservaNueva(b) ==
  [id |-> b, usuario |-> Propietario(b), fecha_inicio |-> FechaInicial(b),
   estado |-> "PENDIENTE", total |-> TotalDe(b), fecha_original |-> None,
   fecha_reprogramacion |-> None, numero_reprogramaciones |-> 0,
   reprogramado_por |-> NULL]

\* ------------------------------------------------- valores de regla
VNum(k, c) == [k |-> k, c |-> c, s |-> "", l |-> <<>>]
VStr(s) == [k |-> "str", c |-> 0, s |-> s, l |-> <<>>]
VList(l) == [k |-> "list", c |-> 0, s |-> "", l |-> l]
VNone == [k |-> "none", c |-> 0, s |-> "", l |-> <<>>]
ENum(n) == [k |-> "int", c |-> n * 100, s |-> ""]
EStr(s) == [k |-> "str", c |-> 0, s |-> s]

T_DOMINGO == "[\"domingo\"]"
T_DOMINGO_MAYUS == "[\"Domingo\"]"
T_DIAS_NUM == "[6, 7]"
T_HORAS == "[10, 22]"
T_SERV == "[\"s2\"]"
T_PLANO == "domingo"
T_CINCO == "5"

\* json.loads sobre los textos del catalogo; [ok |-> FALSE] = excepcion
JsonLoads(txt) ==
  CASE txt = T_DOMINGO -> [ok |-> TRUE, v |-> VList(<<EStr("domingo")>>)]
    [] txt = T_DOMINGO_MAYUS -> [ok |-> TRUE, v |-> VList(<<EStr("Domingo")>>)]
    [] txt = T_DIAS_NUM -> [ok |-> TRUE, v |-> VList(<<ENum(6), ENum(7)>>)]
    [] txt = T_HORAS -> [ok |-> TRUE, v |-> VList(<<ENum(10), ENum(22)>>)]
    [] txt = T_SERV -> [ok |-> TRUE, v |-> VList(<<EStr("s2")>>)]
    [] txt = T_CINCO -> [ok |-> TRUE, v |-> VNum("int", 500)]
    [] txt = "[\"DOMINGO\"]" -> [ok |-> TRUE, v |-> VList(<<EStr("DOMINGO")>>)]
    [] txt = "[\"lunes\", \"Domingo\"]" -> [ok |-> TRUE, v |-> VList(<<EStr("lunes"), EStr("Domingo")>>)]
    [] txt = "[\"domingo\", 7]" -> [ok |-> TRUE, v |-> VList(<<EStr("domingo"), ENum(7)>>)]
    [] txt = "[\"festivo\"]" -> [ok |-> TRUE, v |-> VList(<<EStr("festivo")>>)]
    [] txt = "[]" -> [ok |-> TRUE, v |-> VList(<<>>)]
    [] txt = "\"domingo\"" -> [ok |-> TRUE, v |-> VStr("domingo")]
    [] txt = "null" -> [ok |-> TRUE, v |-> VNone]
    [] txt = "{\"dia\": \"domingo\"}" -> [ok |-> TRUE, v |-> [VNone EXCEPT !.k = "dict"]]
    [] txt = "[\"10\"]" -> [ok |-> TRUE, v |-> VList(<<EStr("10")>>)]
    [] txt = "[true]" -> [ok |-> TRUE, v |-> VList(<<[k |-> "bool", c |-> 100, s |-> ""]>>)]
    [] txt = "[22.0]" -> [ok |-> TRUE, v |-> VList(<<[k |-> "float", c |-> 2200, s |-> ""]>>)]
    [] OTHER -> [ok |-> FALSE, v |-> VNone]

\* str.lower()
Lower(s) == IF s \in {"Domingo", "DOMINGO"} THEN "domingo" ELSE s

EsNumero(v) == v.k \in {"int", "float", "bool"}
\* int(x): trunca hacia cero
IntDe(c) == IF c >= 0 THEN c \div 100 ELSE -((-c) \div 100)

\* ------------------------------------------------- reglas
TiposRegla == {"TIEMPO_MINIMO", "TIEMPO_MAXIMO", "LIMITE_REPROGRAMACIONES",
               "LIMITE_DIARIO", "LIMITE_SEMANAL", "LIMITE_MENSUAL",
               "DIAS_BLACKOUT", "HORAS_BLACKOUT", "CAPACIDAD_MAXIMA",
               "DESCUENTO_PENALIZACION", "SERVICIOS_RESTRINGIDOS", "ROLES_EXCLUIDOS"}
RolesAplicables == {"ALL", "CLIENTE", "OPERADOR", "ADMIN", "CLIENTE_OPERADOR", "OPERADOR_ADMIN"}

Regla(id, tipo, rol, vn, vd, vt, vb, activa, prio) ==
  [id |-> id, tipo_regla |-> tipo, aplicable_a |-> rol, valor_numerico |-> vn,
   valor_decimal |-> vd, valor_texto |-> vt, valor_booleano |-> vb,
   activa |-> activa, prioridad |-> prio,
   fecha_inicio_vigencia |-> None, fecha_fin_vigencia |-> None]

es_aplicable_a_rol(regla, rol) ==
  IF regla.aplicable_a = "ALL" THEN TRUE
  ELSE IF regla.aplicable_a = rol THEN TRUE
  ELSE IF regla.aplicable_a = "CLIENTE_OPERADOR" /\ rol \in {"CLIENTE", "OPERADOR"} THEN TRUE
  ELSE IF regla.aplicable_a = "OPERADOR_ADMIN" /\ rol \in {"OPERADOR", "ADMIN"} THEN TRUE
  ELSE FALSE

obtener_valor(regla) ==
  IF regla.valor_numerico # None THEN VNum("int", regla.valor_numerico[1] * 100)
  ELSE IF regla.valor_decimal # None THEN VNum("float", regla.valor_decimal[1])
  ELSE IF regla.valor_booleano # NULL THEN VNum("bool", IF regla.valor_booleano = "True" THEN 100 ELSE 0)
  ELSE IF regla.valor_texto # NULL /\ regla.valor_texto # ""
       THEN (IF JsonLoads(regla.valor_texto).ok THEN JsonLoads(regla.valor_texto).v
             ELSE VStr(regla.valor_texto))
  ELSE VNone

\* ------------------------------------------------- catalogo de reglas
\* filas posibles de ReglasReprogramacion (perfiles sembrados y variantes)
Catalogo ==
  <<Regla(1, "TIEMPO_MINIMO", "ALL", Some(24), None, NULL, NULL, TRUE, 1),
    Regla(2, "TIEMPO_MINIMO", "CLIENTE", Some(48), None, NULL, NULL, TRUE, 1),
    Regla(3, "TIEMPO_MINIMO", "ADMIN", Some(2), None, NULL, NULL, TRUE, 2),
    Regla(4, "DIAS_BLACKOUT", "ALL", None, None, T_DOMINGO, NULL, TRUE, 2),
    Regla(5, "LIMITE_REPROGRAMACIONES", "CLIENTE", Some(2), None, NULL, NULL, TRUE, 1),
    Regla(6, "LIMITE_DIARIO", "CLIENTE", Some(1), None, NULL, NULL, TRUE, 1),
    Regla(7, "CAPACIDAD_MAXIMA", "ALL", Some(1), None, NULL, NULL, TRUE, 1),
    Regla(8, "HORAS_BLACKOUT", "ALL", None, None, T_HORAS, NULL, TRUE, 2),
    Regla(9, "SERVICIOS_RESTRINGIDOS", "ALL", None, None, T_SERV, NULL, TRUE, 1),
    Regla(10, "DESCUENTO_PENALIZACION", "CLIENTE", None, Some(500), NULL, NULL, TRUE, 1),
    Regla(11, "DIAS_BLACKOUT", "CLIENTE", None, None, T_DIAS_NUM, NULL, TRUE, 1),
    Regla(12, "TIEMPO_MINIMO", "OPERADOR_ADMIN", Some(1), None, NULL, NULL, FALSE, 0),
    Regla(13, "TIEMPO_MINIMO", "CLIENTE_OPERADOR", Some(12), None, NULL, NULL, TRUE, 3),
    Regla(14, "TIEMPO_MAXIMO", "ALL", Some(100), None, NULL, NULL, TRUE, 1)>>
CatalogoIds == 1..Len(Catalogo)
Almacen(S) == [i \in S |-> Catalogo[i]]

\* valores que un administrador puede guardar en una regla de blackout: el
\* modelo no restringe el campo de valor al tipo de regla. Dias: identificadores
\* 101..114; horas: 115..121.
VariantesBlackout ==
  <<Regla(101, "DIAS_BLACKOUT", "ALL", None, None, T_DOMINGO, NULL, TRUE, 1),
    Regla(102, "DIAS_BLACKOUT", "ALL", None, None, "[\"DOMINGO\"]", NULL, TRUE, 1),
    Regla(103, "DIAS_BLACKOUT", "ALL", None, None, "[\"lunes\", \"Domingo\"]", NULL, TRUE, 1),
    Regla(104, "DIAS_BLACKOUT", "ALL", None, None, "[\"domingo\", 7]", NULL, TRUE, 1),
    Regla(105, "DIAS_BLACKOUT", "ALL", None, None, T_DIAS_NUM, NULL, TRUE, 1),
    Regla(106, "DIAS_BLACKOUT", "ALL", None, None, "[\"festivo\"]", NULL, TRUE, 1),
    Regla(107, "DIAS_BLACKOUT", "ALL", None, None, "[]", NULL, TRUE, 1),
    Regla(108, "DIAS_BLACKOUT", "ALL", None, None, T_PLANO, NULL, TRUE, 1),
    Regla(109, "DIAS_BLACKOUT", "ALL", None, None, "\"domingo\"", NULL, TRUE, 1),
    Regla(110, "DIAS_BLACKOUT", "ALL", None, None, "null", NULL, TRUE, 1),
    Regla(111, "DIAS_BLACKOUT", "ALL", None, None, "{\"dia\": \"domingo\"}", NULL, TRUE, 1),
    Regla(112, "DIAS_BLACKOUT", "ALL", Some(7), None, NULL, NULL, TRUE, 1),
    Regla(113, "DIAS_BLACKOUT", "ALL", None, Some(650), NULL, NULL, TRUE, 1),
    Regla(114, "DIAS_BLACKOUT", "ALL", None, None, NULL, "True", TRUE, 1),
    Regla(115, "HORAS_BLACKOUT", "ALL", None, None, T_HORAS, NULL, TRUE, 1),
    Regla(116, "HORAS_BLACKOUT", "ALL", None, None, "[\"10\"]", NULL, TRUE, 1),
    Regla(117, "HORAS_BLACKOUT", "ALL", None, None, "[true]", NULL, TRUE, 1),
    Regla(118, "HORAS_BLACKOUT", "ALL", None, None, "[22.0]", NULL, TRUE, 1),
    Regla(119, "HORAS_BLACKOUT", "ALL", Some(10), None, NULL, NULL, TRUE, 1),
    Regla(120, "HORAS_BLACKOUT", "ALL", None, None, "diez", NULL, TRUE, 1),
    Regla(121, "HORAS_BLACKOUT", "ALL", None, None, NULL, "True", TRUE, 1)>>
AlmacenBlackout(S) == [i \in S |-> VariantesBlackout[i - 100]]

\* valores que puede tener una regla DESCUENTO_PENALIZACION (identificadores
\* 201..207): decimal, entero, entero negativo, cero, texto, texto JSON y booleano
VariantesPenalizacion ==
  <<Regla(201, "DESCUENTO_PENALIZACION", "CLIENTE", None, Some(500), NULL, NULL, TRUE, 1),
    Regla(202, "DESCUENTO_PENALIZACION", "ALL", Some(10), None, NULL, NULL, TRUE, 2),
    Regla(203, "DESCUENTO_PENALIZACION", "CLIENTE", Some(-5), Some(500), NULL, NULL, TRUE, 3),
    Regla(204, "DESCUENTO_PENALIZACION", "CLIENTE", None, Some(0), NULL, NULL, TRUE, 4),
    Regla(205, "DESCUENTO_PENALIZACION", "CLIENTE", None, None, "5 %", NULL, TRUE, 5),
    Regla(206, "DESCUENTO_PENALIZACION", "ADMIN", None, None, T_CINCO, NULL, TRUE, 6),
    Regla(207, "DESCUENTO_PENALIZACION", "ALL", None, None, NULL, "True", TRUE, 7)>>
AlmacenPenalizacion(S) == [i \in S |-> VariantesPenalizacion[i - 200]]

\* ------------------------------------------------- resolucion de regla
\* orden en que la base devuelve filas de igual prioridad
\* (order_by('prioridad') no fija el orden entre empatadas): la fila p va primero
Empatadas(rs) ==
  {i \in DOMAIN rs : \E j \in DOMAIN rs \ {i} :
     /\ rs[i].tipo_regla = rs[j].tipo_regla /\ rs[i].prioridad = rs[j].prioridad
     /\ rs[i].activa /\ rs[j].activa}
OrdenesDB(rs) ==
  {[i \in DOMAIN rs |-> IF i >= p THEN i - p ELSE i - p + 1000] : p \in Empatadas(rs) \cup {0}}

Antes(rs, ord, i, j) ==
  \/ rs[i].prioridad < rs[j].prioridad
  \/ rs[i].prioridad = rs[j].prioridad /\ ord[i] <= ord[j]

RECURSIVE order_by_prioridad(_, _, _)
order_by_prioridad(S, rs, ord) ==
  IF S = {} THEN <<>>
  ELSE LET m == CHOOSE i \in S : \A j \in S : Antes(rs, ord, i, j)
       IN <<m>> \o order_by_prioridad(S \ {m}, rs, ord)

\* identificador devuelto cuando ninguna regla aplica (None)
SinRegla == 0

RECURSIVE PrimeraAplicable(_, _, _)
PrimeraAplicable(ids, rs, rol) ==
  IF ids = <<>> THEN SinRegla
  ELSE IF es_aplicable_a_rol(rs[Head(ids)], rol) THEN Head(ids)
  ELSE PrimeraAplicable(Tail(ids), rs, rol)

\* variante: filtra solo por tipo, sin activa=True
FiltroActivas_todas(rs, tipo_regla) ==
  {i \in DOMAIN rs : rs[i].tipo_regla = tipo_regla}

FiltroActivas(rs, tipo_regla) ==
  {i \in DOMAIN rs : rs[i].tipo_regla = tipo_regla /\ rs[i].activa}

obtener_regla_activa(rs, ord, tipo_regla, rol) ==
  PrimeraAplicable(order_by_prioridad(FiltroActivas(rs, tipo_regla), rs, ord), rs, rol)

\* for rol in roles: regla = obtener_regla_activa(tipo, rol); if regla: ...; break
RECURSIVE ReglaPorRoles(_, _, _, _)
ReglaPorRoles(rs, ord, tipo_regla, roles) ==
  IF roles = <<>> THEN [regla |-> SinRegla, rol |-> NULL]
  ELSE LET regla == obtener_regla_activa(rs, ord, tipo_regla, Head(roles))
       IN IF regla # SinRegla THEN [regla |-> regla, rol |-> Head(roles)]
          ELSE ReglaPorRoles(rs, ord, tipo_regla, Tail(roles))

_obtener_roles_usuario(usuario) ==
  IF usuario = NULL THEN <<"ALL">> ELSE RolesDe(usuario) \o <<"ALL">>

\* ------------------------------------------------- validador dinamico
\* resultado de un paso: errores anadidos y si escapo una excepcion
Paso(errs, falla) == [errs |-> errs, falla |-> falla]

_validar_fecha_basica(ahora_, nueva_fecha) ==
  Paso((IF nueva_fecha <= ahora_ THEN <<"FECHA_PASADA">> ELSE <<>>)
       \o (IF nueva_fecha > ahora_ + DosAnios THEN <<"MAS_DE_2_ANIOS">> ELSE <<>>), FALSE)

_validar_estado_reserva(reserva) ==
  Paso(IF reserva.estado \in {"CANCELADA"} THEN <<"CANCELADA">> ELSE <<>>, FALSE)

\* variante: el limite exacto (ahora + horas minimas) ya no se rechaza
_aplicar_reglas_tiempo_estricto(rs, ord, roles, ahora_, nueva_fecha) ==
  LET rmin == ReglaPorRoles(rs, ord, "TIEMPO_MINIMO", roles).regla
      rmax == ReglaPorRoles(rs, ord, "TIEMPO_MAXIMO", roles).regla
      emin == IF rmin # SinRegla /\ EsNumero(obtener_valor(rs[rmin]))
                 /\ nueva_fecha * 100 < ahora_ * 100 + obtener_valor(rs[rmin]).c
              THEN <<"TIEMPO_MINIMO">> ELSE <<>>
      emax == IF rmax # SinRegla /\ EsNumero(obtener_valor(rs[rmax]))
                 /\ nueva_fecha * 100 > ahora_ * 100 + obtener_valor(rs[rmax]).c
              THEN <<"TIEMPO_MAXIMO">> ELSE <<>>
  IN Paso(emin \o emax, FALSE)

_aplicar_reglas_tiempo(rs, ord, roles, ahora_, nueva_fecha) ==
  LET rmin == ReglaPorRoles(rs, ord, "TIEMPO_MINIMO", roles).regla
      rmax == ReglaPorRoles(rs, ord, "TIEMPO_MAXIMO", roles).regla
      emin == IF rmin # SinRegla /\ EsNumero(obtener_valor(rs[rmin]))
                 /\ nueva_fecha * 100 <= ahora_ * 100 + obtener_valor(rs[rmin]).c
              THEN <<"TIEMPO_MINIMO">> ELSE <<>>
      emax == IF rmax # SinRegla /\ EsNumero(obtener_valor(rs[rmax]))
                 /\ nueva_fecha * 100 > ahora_ * 100 + obtener_valor(rs[rmax]).c
              THEN <<"TIEMPO_MAXIMO">> ELSE <<>>
  IN Paso(emin \o emax, FALSE)

\* variante: cuenta las filas de hoy de cualquier usuario
ReprogramacionesHoy_de_todos(hist, usuario, ahora_) ==
  Cardinality({i \in 1..Len(hist) : Fecha(hist[i].created_at) = Fecha(ahora_)})

\* HistorialReprogramacion.objects.filter(reprogramado_por=usuario, created_at__date=hoy).count()
ReprogramacionesHoy(hist, usuario, ahora_) ==
  Cardinality({i \in 1..Len(hist) : hist[i].reprogramado_por = usuario
                                    /\ Fecha(hist[i].created_at) = Fecha(ahora_)})

\* variante: una reserva que ya alcanzo el limite aun admite otra reprogramacion
_aplicar_reglas_limites_excedido(rs, ord, roles, usuario, hist, ahora_, reserva) ==
  LET rl == ReglaPorRoles(rs, ord, "LIMITE_REPROGRAMACIONES", roles).regla
      rd == ReglaPorRoles(rs, ord, "LIMITE_DIARIO", roles).regla
      el == IF rl # SinRegla /\ EsNumero(obtener_valor(rs[rl]))
               /\ reserva.numero_reprogramaciones > IntDe(obtener_valor(rs[rl]).c)
            THEN <<"LIMITE_REPROGRAMACIONES">> ELSE <<>>
      ed == IF rd # SinRegla /\ usuario # NULL /\ EsNumero(obtener_valor(rs[rd]))
               /\ ReprogramacionesHoy(hist, usuario, ahora_) >= IntDe(obtener_valor(rs[rd]).c)
            THEN <<"LIMITE_DIARIO">> ELSE <<>>
  IN Paso(el \o ed, FALSE)

_aplicar_reglas_limites(rs, ord, roles, usuario, hist, ahora_, reserva) ==
  LET rl == ReglaPorRoles(rs, ord, "LIMITE_REPROGRAMACIONES", roles).regla
      rd == ReglaPorRoles(rs, ord, "LIMITE_DIARIO", roles).regla
      el == IF rl # SinRegla /\ EsNumero(obtener_valor(rs[rl]))
               /\ reserva.numero_reprogramaciones >= IntDe(obtener_valor(rs[rl]).c)
            THEN <<"LIMITE_REPROGRAMACIONES">> ELSE <<>>
      ed == IF rd # SinRegla /\ usuario # NULL /\ EsNumero(obtener_valor(rs[rd]))
               /\ ReprogramacionesHoy(hist, usuario, ahora_) >= IntDe(obtener_valor(rs[rd]).c)
            THEN <<"LIMITE_DIARIO">> ELSE <<>>
  IN Paso(el \o ed, FALSE)

\* [d.lower() for d in dias_blackout]: AttributeError si algun elemento no es str
TodosStr(l) == \A i \in 1..Len(l) : l[i].k = "str"
\* hora_nueva in horas_blackout: igualdad numerica de Python (True == 1, 22 == 22.0)
HoraEnLista(h, l) == \E i \in 1..Len(l) : l[i].k \in {"int", "float", "bool"} /\ l[i].c = h * 100
StrEnLista(x, l) == \E i \in 1..Len(l) : l[i].k = "str" /\ l[i].s = x

_aplicar_reglas_blackout(rs, ord, roles, nueva_fecha) ==
  LET rdia == ReglaPorRoles(rs, ord, "DIAS_BLACKOUT", roles).regla
      rhor == ReglaPorRoles(rs, ord, "HORAS_BLACKOUT", roles).regla
      vdia == IF rdia # SinRegla THEN obtener_valor(rs[rdia]) ELSE VNone
      vhor == IF rhor # SinRegla THEN obtener_valor(rs[rhor]) ELSE VNone
      faltadia == vdia.k = "list" /\ ~TodosStr(vdia.l)
      edia == IF vdia.k = "list" /\ TodosStr(vdia.l)
                 /\ \E i \in 1..Len(vdia.l) :
                       Lower(vdia.l[i].s) = nombres_dias[DiaSemana(nueva_fecha) + 1]
              THEN <<"DIAS_BLACKOUT">> ELSE <<>>
      ehor == IF vhor.k = "list" /\ HoraEnLista(Hora(nueva_fecha), vhor.l)
              THEN <<"HORAS_BLACKOUT">> ELSE <<>>
  IN IF faltadia THEN Paso(<<>>, TRUE) ELSE Paso(edia \o ehor, FALSE)

RECURSIVE ErroresServicios(_, _, _)
ErroresServicios(orden, reserva_id, l) ==
  IF orden = <<>> THEN <<>>
  ELSE (IF Detalles(reserva_id)[Head(orden)] > 0 /\ StrEnLista(Head(orden), l)
        THEN <<"SERVICIO_RESTRINGIDO">> ELSE <<>>)
       \o ErroresServicios(Tail(orden), reserva_id, l)

_aplicar_reglas_servicios(rs, ord, roles, reserva) ==
  LET r == ReglaPorRoles(rs, ord, "SERVICIOS_RESTRINGIDOS", roles).regla
      v == IF r # SinRegla THEN obtener_valor(rs[r]) ELSE VNone
  IN Paso(IF v.k = "list" THEN ErroresServicios(ServiciosOrden, reserva.id, v.l) ELSE <<>>, FALSE)

\* Reserva.objects.filter(fecha_inicio__date=..., estado__in=[...]).exclude(id=reserva.id)
ReservasEnFecha(res, nueva_fecha, reserva_id) ==
  {b \in DOMAIN res : b # reserva_id /\ Fecha(res[b].fecha_inicio) = Fecha(nueva_fecha)
                      /\ res[b].estado \in EstadosActivos}

_aplicar_reglas_capacidad(rs, ord, roles, res, nueva_fecha, reserva) ==
  LET r == ReglaPorRoles(rs, ord, "CAPACIDAD_MAXIMA", roles).regla
      v == IF r # SinRegla THEN obtener_valor(rs[r]) ELSE VNone
  IN Paso(IF EsNumero(v) /\ Cardinality(ReservasEnFecha(res, nueva_fecha, reserva.id)) >= IntDe(v.c)
          THEN <<"CAPACIDAD_MAXIMA">> ELSE <<>>, FALSE)

\* filas del join de reservas en la fecha con sus detalles de servicios compartidos
Conflictos(res, nueva_fecha, reserva_id) ==
  {<<b, s>> \in ReservasEnFecha(res, nueva_fecha, reserva_id) \X ServiciosDe(reserva_id) :
     Detalles(b)[s] > 0}

_verificar_disponibilidad(res, nueva_fecha, reserva) ==
  LET c == Conflictos(res, nueva_fecha, reserva.id)
  IN [disponible |-> c = {}, conflictos |-> Cardinality(c),
      servicios_conflictivos |-> {x[2] : x \in c}]

\* variante: el monto es total * porcentaje / 100 tambien cuando el porcentaje
\* no es positivo
_calcular_penalizacion_sin_guarda(rs, ord, roles, reserva) ==
  LET r == ReglaPorRoles(rs, ord, "DESCUENTO_PENALIZACION", roles).regla
      v == IF r # SinRegla THEN obtener_valor(rs[r]) ELSE VNone
      pct == IF EsNumero(v) THEN v.c ELSE 0
      monto == IF pct >= 0 THEN (reserva.total * pct) \div 100
               ELSE -((reserva.total * (-pct)) \div 100)
  IN [aplica_penalizacion |-> pct > 0, porcentaje |-> pct, monto |-> monto,
      total_con_penalizacion |-> reserva.total * 100 + monto]

_calcular_penalizacion(rs, ord, roles, reserva) ==
  LET r == ReglaPorRoles(rs, ord, "DESCUENTO_PENALIZACION", roles).regla
      v == IF r # SinRegla THEN obtener_valor(rs[r]) ELSE VNone
      pct == IF EsNumero(v) THEN v.c ELSE 0
      monto == IF pct > 0 THEN (reserva.total * pct) \div 100 ELSE 0
  IN [aplica_penalizacion |-> pct > 0, porcentaje |-> pct, monto |-> monto,
      total_con_penalizacion |-> reserva.total * 100 + monto]

tipos_reglas == <<"TIEMPO_MINIMO", "TIEMPO_MAXIMO", "LIMITE_REPROGRAMACIONES",
                  "LIMITE_DIARIO", "DIAS_BLACKOUT", "HORAS_BLACKOUT",
                  "SERVICIOS_RESTRINGIDOS", "CAPACIDAD_MAXIMA", "DESCUENTO_PENALIZACION">>

RECURSIVE _obtener_reglas_aplicadas(_, _, _, _)
_obtener_reglas_aplicadas(rs, ord, roles, tipos) ==
  IF tipos = <<>> THEN <<>>
  ELSE LET w == ReglaPorRoles(rs, ord, Head(tipos), roles)
       IN (IF w.regla # SinRegla
           THEN <<[tipo |-> Head(tipos), rol |-> w.rol, regla |-> w.regla,
                   prioridad |-> rs[w.regla].prioridad]>>
           ELSE <<>>) \o _obtener_reglas_aplicadas(rs, ord, roles, Tail(tipos))

\* variante: la evaluacion se detiene en la primera comprobacion con errores
RECURSIVE Encadenar_corta(_)
Encadenar_corta(pasos) ==
  IF pasos = <<>> THEN Paso(<<>>, FALSE)
  ELSE IF Head(pasos).falla THEN Paso(Head(pasos).errs, TRUE)
  ELSE IF Head(pasos).errs # <<>> THEN Paso(Head(pasos).errs, FALSE)
  ELSE Encadenar_corta(Tail(pasos))

\* encadena los pasos: una excepcion corta la evaluacion
RECURSIVE Encadenar(_)
Encadenar(pasos) ==
  IF pasos = <<>> THEN Paso(<<>>, FALSE)
  ELSE IF Head(pasos).falla THEN Paso(Head(pasos).errs, TRUE)
  ELSE LET resto == Encadenar(Tail(pasos))
       IN Paso(Head(pasos).errs \o resto.errs, resto.falla)

SinDisponibilidad == [disponible |-> TRUE, conflictos |-> 0, servicios_conflictivos |-> {}]
SinPenalizacion == [aplica_penalizacion |-> FALSE, porcentaje |-> 0, monto |-> 0,
                    total_con_penalizacion |-> 0]

\* veredicto; falla = TRUE cuando escapa una excepcion y no se devuelve veredicto
validar_reprogramacion_completa(rs, ord, res, hist, ahora_, usuario, reserva, nueva_fecha) ==
  LET roles == _obtener_roles_usuario(usuario)
      p == Encadenar(<<_validar_fecha_basica(ahora_, nueva_fecha),
                       _validar_estado_reserva(reserva),
                       _aplicar_reglas_tiempo(rs, ord, roles, ahora_, nueva_fecha),
                       _aplicar_reglas_limites(rs, ord, roles, usuario, hist, ahora_, reserva),
                       _aplicar_reglas_blackout(rs, ord, roles, nueva_fecha),
                       _aplicar_reglas_servicios(rs, ord, roles, reserva),
                       _aplicar_reglas_capacidad(rs, ord, roles, res, nueva_fecha, reserva)>>)
  IN IF p.falla
     THEN [falla |-> TRUE, valida |-> FALSE, errores |-> <<>>,
           disponibilidad |-> SinDisponibilidad, penalizacion |-> SinPenalizacion,
           reglas_aplicadas |-> <<>>, usuario_roles |-> roles, fecha_validacion |-> 0,
           regla |-> SinRegla, sugerencias |-> <<>>]
     ELSE [falla |-> FALSE, valida |-> Len(p.errs) = 0, errores |-> p.errs,
           disponibilidad |-> _verificar_disponibilidad(res, nueva_fecha, reserva),
           penalizacion |-> _calcular_penalizacion(rs, ord, roles, reserva),
           reglas_aplicadas |-> _obtener_reglas_aplicadas(rs, ord, roles, tipos_reglas),
           usuario_roles |-> roles, fecha_validacion |-> ahora_,
           regla |-> SinRegla, sugerencias |-> <<>>]

\* ------------------------------------------------- generador de recomendaciones
\* Los resultados intermedios se ligan con variables acotadas (x \in {e}) para
\* que cada llamada al validador se evalue una sola vez.
\* (fecha_candidata - fecha_deseada).days: dias enteros hacia abajo
DiferenciaDias(fecha_deseada, fecha_candidata) ==
  LET d == (fecha_candidata - fecha_deseada) \div 24 IN IF d < 0 THEN -d ELSE d

_calcular_score(fecha_deseada, fecha_candidata, resultado_validacion) ==
  LET diferencia_dias == DiferenciaDias(fecha_deseada, fecha_candidata)
      score_cercania == IF 10 - diferencia_dias > 0 THEN 10 - diferencia_dias ELSE 0
      score_disponibilidad == IF resultado_validacion.disponibilidad.disponible THEN 5 ELSE 0
      score_penalizacion == IF resultado_validacion.penalizacion.aplica_penalizacion THEN -2 ELSE 2
  IN score_cercania + score_disponibilidad + score_penalizacion

\* range(-7, 15) sin el 0, y [0, 1, -1, 2, -2] en cada dia
dias_offsets == <<-7, -6, -5, -4, -3, -2, -1, 1, 2, 3, 4, 5, 6, 7, 8, 9, 10, 11, 12, 13, 14>>
\* variante: las horas de cada dia se sondean en orden ascendente
hora_offsets_ascendente == <<-2, -1, 0, 1, 2>>
hora_offsets == <<0, 1, -1, 2, -2>>

\* bucle interior: horas hi.. del dia di; [falla, sugerencias]
RECURSIVE SondearDia(_, _, _, _, _, _, _, _, _, _, _, _)
SondearDia(rs, ord, res, hist, ahora_, usuario, reserva, fecha_deseada, cantidad, di, hi, sugerencias) ==
  IF hi > Len(hora_offsets) THEN [falla |-> FALSE, sugerencias |-> sugerencias]
  ELSE CHOOSE salida \in
         {LET fecha_con_hora == fecha_deseada + dias_offsets[di] * 24 + hora_offsets[hi]
              nuevas == sugerencias \o
                          <<[fecha |-> fecha_con_hora,
                             disponible |-> resultado.disponibilidad.disponible,
                             conflictos |-> resultado.disponibilidad.conflictos,
                             penalizacion |-> resultado.penalizacion,
                             score |-> _calcular_score(fecha_deseada, fecha_con_hora, resultado)]>>
          IN IF resultado.falla THEN [falla |-> TRUE, sugerencias |-> <<>>]
             ELSE IF ~resultado.valida
                  THEN SondearDia(rs, ord, res, hist, ahora_, usuario, reserva, fecha_deseada,
                                  cantidad, di, hi + 1, sugerencias)
             ELSE IF Len(sugerencias) + 1 >= cantidad THEN [falla |-> FALSE, sugerencias |-> nuevas]
             ELSE SondearDia(rs, ord, res, hist, ahora_, usuario, reserva, fecha_deseada,
                             cantidad, di, hi + 1, nuevas) :
          resultado \in {validar_reprogramacion_completa(
                            rs, ord, res, hist, ahora_, usuario, reserva,
                            fecha_deseada + dias_offsets[di] * 24 + hora_offsets[hi])}} : TRUE

\* bucle exterior: dias di..; corta cuando ya hay cantidad sugerencias
RECURSIVE Sondear(_, _, _, _, _, _, _, _, _, _, _)
Sondear(rs, ord, res, hist, ahora_, usuario, reserva, fecha_deseada, cantidad, di, sugerencias) ==
  IF di > Len(dias_offsets) THEN [falla |-> FALSE, sugerencias |-> sugerencias]
  ELSE CHOOSE salida \in
         {IF d.falla \/ Len(d.sugerencias) >= cantidad THEN d
          ELSE Sondear(rs, ord, res, hist, ahora_, usuario, reserva, fecha_deseada,
                       cantidad, di + 1, d.sugerencias) :
          d \in {SondearDia(rs, ord, res, hist, ahora_, usuario, reserva, fecha_deseada,
                            cantidad, di, 1, sugerencias)}} : TRUE

\* list.sort(key=score, reverse=True): estable, los de igual score conservan el orden
RECURSIVE OrdenarPorScore(_)
OrdenarPorScore(l) ==
  IF l = <<>> THEN <<>>
  ELSE LET m == CHOOSE i \in 1..Len(l) :
                  /\ \A j \in 1..Len(l) : l[j].score <= l[i].score
                  /\ \A j \in 1..(i - 1) : l[j].score < l[i].score
       IN <<l[m]>> \o OrdenarPorScore(SubSeq(l, 1, m - 1) \o SubSeq(l, m + 1, Len(l)))

\* sugerencias[:cantidad]
Recortar(l, cantidad) ==
  IF cantidad >= 0 THEN SubSeq(l, 1, IF cantidad < Len(l) THEN cantidad ELSE Len(l))
  ELSE SubSeq(l, 1, IF Len(l) + cantidad > 0 THEN Len(l) + cantidad ELSE 0)

\* variante: devuelve las sugerencias en el orden de sondeo, sin ordenar por score
sugerir_fechas_alternativas_sin_ordenar(rs, ord, res, hist, ahora_, usuario, reserva, fecha_deseada, cantidad) ==
  CHOOSE salida \in
    {[falla |-> r.falla, sugerencias |-> Recortar(r.sugerencias, cantidad)] :
     r \in {Sondear(rs, ord, res, hist, ahora_, usuario, reserva, fecha_deseada, cantidad,
                    1, <<>>)}} : TRUE

sugerir_fechas_alternativas(rs, ord, res, hist, ahora_, usuario, reserva, fecha_deseada, cantidad) ==
  CHOOSE salida \in
    {[falla |-> r.falla, sugerencias |-> Recortar(OrdenarPorScore(r.sugerencias), cantidad)] :
     r \in {Sondear(rs, ord, res, hist, ahora_, usuario, reserva, fecha_deseada, cantidad,
                    1, <<>>)}} : TRUE

\* ------------------------------------------------- serializador de reprogramacion
\* try: ... raise ValidationError ... except: pass
ExceptPass(paso) == Paso(<<>>, FALSE)

\* valor por defecto cuando la regla no existe o su valor es None
ValorODefecto(rs, r, defecto) ==
  IF r # SinRegla /\ obtener_valor(rs[r]).k # "none" THEN obtener_valor(rs[r])
  ELSE VNum("int", defecto * 100)

validate_nueva_fecha(rs, ord, ahora_, usuario, value) ==
  LET roles == RolesDe(usuario) \o <<"ALL">>
      tiempo_minimo == ValorODefecto(rs, ReglaPorRoles(rs, ord, "TIEMPO_MINIMO", roles).regla, 24)
      tiempo_maximo == ValorODefecto(rs, ReglaPorRoles(rs, ord, "TIEMPO_MAXIMO", roles).regla, 365 * 24)
      blackout == ExceptPass(_aplicar_reglas_blackout(rs, ord, roles, value))
  IN IF value <= ahora_ THEN <<"FECHA_PASADA">>
     ELSE IF EsNumero(tiempo_minimo) /\ value * 100 <= ahora_ * 100 + tiempo_minimo.c
          THEN <<"TIEMPO_MINIMO">>
     ELSE IF EsNumero(tiempo_maximo) /\ value * 100 > ahora_ * 100 + tiempo_maximo.c
          THEN <<"TIEMPO_MAXIMO">>
     ELSE blackout.errs

validate(rs, ord, usuario, reserva, nueva_fecha) ==
  LET roles == RolesDe(usuario) \o <<"ALL">>
      limite == ValorODefecto(rs, ReglaPorRoles(rs, ord, "LIMITE_REPROGRAMACIONES", roles).regla, 3)
      servicios == ExceptPass(_aplicar_reglas_servicios(rs, ord, roles, reserva))
  IN IF reserva.estado \in {"CANCELADA"} THEN <<"CANCELADA">>
     ELSE IF EsNumero(limite) /\ reserva.numero_reprogramaciones >= IntDe(limite.c)
          THEN <<"LIMITE_REPROGRAMACIONES">>
     ELSE IF Fecha(nueva_fecha) = Fecha(reserva.fecha_inicio) THEN <<"MISMA_FECHA">>
     ELSE servicios.errs

\* serializer.is_valid(raise_exception=True): primero el campo, despues validate()
is_valid(rs, ord, ahora_, usuario, reserva, nueva_fecha) ==
  IF validate_nueva_fecha(rs, ord, ahora_, usuario, nueva_fecha) # <<>>
  THEN validate_nueva_fecha(rs, ord, ahora_, usuario, nueva_fecha)
  ELSE validate(rs, ord, usuario, reserva, nueva_fecha)

\* ------------------------------------------------- disponibilidad en las vistas
\* rs.cantidad sobre un entero de values_list(flat=True): AttributeError si hay filas
RECURSIVE CupoPorDetalle(_, _, _)
CupoPorDetalle(orden, reserva_id, conFilas) ==
  IF orden = <<>> THEN "True"
  ELSE LET s == Head(orden)
       IN IF Detalles(reserva_id)[s] > 0 /\ MaxPersonas(s) > 0
          THEN (IF conFilas[s] THEN "AttributeError"
                ELSE IF 0 + Detalles(reserva_id)[s] > MaxPersonas(s) THEN "False"
                ELSE CupoPorDetalle(Tail(orden), reserva_id, conFilas))
          ELSE CupoPorDetalle(Tail(orden), reserva_id, conFilas)

_is_fecha_disponible(res, nueva_fecha, reserva_actual) ==
  LET reservas_conflictivas ==
        {b \in ReservasEnFecha(res, nueva_fecha, reserva_actual.id) :
           \E s \in ServiciosDe(reserva_actual.id) : Detalles(b)[s] > 0}
      conFilas == [s \in Servicios |-> \E b \in reservas_conflictivas : Detalles(b)[s] > 0]
  IN IF reservas_conflictivas # {}
     THEN CupoPorDetalle(ServiciosOrden, reserva_actual.id, conFilas)
     ELSE "True"

_verificar_disponibilidad_completa(res, nueva_fecha, reserva) ==
  LET conFilas == [s \in Servicios |->
                     \E b \in ReservasEnFecha(res, nueva_fecha, reserva.id) : Detalles(b)[s] > 0]
      r == CupoPorDetalle(ServiciosOrden, reserva.id, conFilas)
  IN IF r = "AttributeError" THEN "False" ELSE r

\* ------------------------------------------------- estado
\* solicitudes: numero de SolicitudSoporte creadas por notificar_administrador
\* resp: ultima respuesta HTTP devuelta por una vista de reprogramacion
VARIABLES reservas, historial, solicitudes, reglas, ahora,
          pc, pet, obj, resp, iniciadas,
          consulta, veredicto

vars == <<reservas, historial, solicitudes, reglas, ahora,
          pc, pet, obj, resp, iniciadas, consulta, veredicto>>

Procs == {"p1", "p2"}
Vistas == {"reprogramar", "gestion"}
NuevasFechas == {24, 58, 154}
ReglasIniciales == {1, 4, 5}
ReglasConmutables == {4, 7}
\* reglas del almacen que empiezan desactivadas
ReglasInactivas == {7}

SinPeticion == [vista |-> NULL, usuario |-> NULL, reserva_id |-> 0, nueva_fecha |-> 0]
SinObjeto == [ReservaNueva(1) EXCEPT !.id = 0]
SinRespuesta == [status |-> 0, detalle |-> NULL, notificaciones |-> None]
Respuesta(status, detalle, notif) == [status |-> status, detalle |-> detalle, notificaciones |-> notif]
SinConsulta == [op |-> NULL, usuario |-> NULL, reserva_id |-> 0, nueva_fecha |-> 0,
                tipo_regla |-> NULL, rol |-> NULL, cantidad |-> 0]
SinVeredicto == [falla |-> FALSE, valida |-> FALSE, errores |-> <<>>,
                 disponibilidad |-> SinDisponibilidad, penalizacion |-> SinPenalizacion,
                 reglas_aplicadas |-> <<>>, usuario_roles |-> <<>>, fecha_validacion |-> 0,
                 regla |-> SinRegla, sugerencias |-> <<>>]

Init ==
  /\ reservas = [b \in ReservaIds |-> ReservaNueva(b)]
  /\ historial = <<>>
  /\ solicitudes = 0
  /\ reglas = [i \in ReglasIniciales \cup ReglasConmutables |->
                 [Catalogo[i] EXCEPT !.activa = i \notin ReglasInactivas]]
  /\ ahora = 0
  /\ pc = [p \in Procs |-> "libre"]
  /\ pet = [p \in Procs |-> SinPeticion]
  /\ obj = [p \in Procs |-> SinObjeto]
  /\ resp = SinRespuesta
  /\ iniciadas = 0
  /\ consulta = SinConsulta
  /\ veredicto = SinVeredicto

\* ------------------------------------------------- permisos de las vistas
TieneRolValido(u) == \E r \in {"ADMIN", "OPERADOR", "CLIENTE"} : EnSeq(r, RolesDe(u))
VeTodas(u) == EnSeq("ADMIN", RolesDe(u)) \/ EnSeq("OPERADOR", RolesDe(u))
\* codigo HTTP del control de acceso; 0 = permitido
Acceso(vista, u, b) ==
  IF vista = "reprogramar"
  THEN (IF ~TieneRolValido(u) THEN 403
        ELSE IF ~VeTodas(u) /\ Propietario(b) # u THEN 404
        ELSE IF EnSeq("CLIENTE", RolesDe(u)) /\ Propietario(b) # u THEN 403
        ELSE 0)
  ELSE (IF ~TieneRolValido(u) THEN 403
        ELSE IF EnSeq("CLIENTE", RolesDe(u)) /\ Propietario(b) # u THEN 403
        ELSE 0)

\* ------------------------------------------------- transaccion de reprogramacion
BD(res, hist, sols) == [reservas |-> res, historial |-> hist, solicitudes |-> sols]

\* variante: fecha_original se reescribe en cada reprogramacion
ReservaReprogramada_sobrescribe(reserva, nueva_fecha, usuario, ahora_) ==
  [reserva EXCEPT
     !.fecha_original = Some(reserva.fecha_inicio),
     !.fecha_inicio = nueva_fecha,
     !.estado = "REPROGRAMADA",
     !.fecha_reprogramacion = Some(ahora_),
     !.numero_reprogramaciones = reserva.numero_reprogramaciones + 1,
     !.reprogramado_por = usuario]

\* campos que la vista asigna sobre la instancia cargada antes de reserva.save()
ReservaReprogramada(reserva, nueva_fecha, usuario, ahora_) ==
  [reserva EXCEPT
     !.fecha_original = IF reserva.fecha_original = None THEN Some(reserva.fecha_inicio)
                        ELSE reserva.fecha_original,
     !.fecha_inicio = nueva_fecha,
     !.estado = "REPROGRAMADA",
     !.fecha_reprogramacion = Some(ahora_),
     !.numero_reprogramaciones = reserva.numero_reprogramaciones + 1,
     !.reprogramado_por = usuario]

\* variante: fecha_anterior tomada despues de asignar la nueva fecha
FilaHistorial_sin_anterior(reserva, nueva_fecha, usuario, ahora_) ==
  [reserva |-> reserva.id, fecha_anterior |-> nueva_fecha,
   fecha_nueva |-> nueva_fecha, reprogramado_por |-> usuario,
   notificacion_enviada |-> FALSE, created_at |-> ahora_]

\* HistorialReprogramacion.objects.create(...)
FilaHistorial(reserva, nueva_fecha, usuario, ahora_) ==
  [reserva |-> reserva.id, fecha_anterior |-> reserva.fecha_inicio,
   fecha_nueva |-> nueva_fecha, reprogramado_por |-> usuario,
   notificacion_enviada |-> FALSE, created_at |-> ahora_]

\* variante: sin bloque atomico, lo escrito antes de la excepcion permanece
Rollback_parcial(antes, parcial) == parcial

\* with transaction.atomic(): una excepcion deshace todo lo escrito
Rollback(antes, parcial) == antes

PuntosDeFallo == {"guardar_reserva", "crear_historial", "guardar_historial"}

\* resultado de notificar_administrador: ticket creado, excepcion antes de escribir,
\* o DatabaseError en SolicitudSoporte.objects.create capturado dentro del bloque atomico
ResultadosSoporte == {"ok", "fallo", "fallo_bd"}

\* tras un DatabaseError capturado dentro de atomic() la transaccion queda marcada
\* para rollback y la consulta siguiente (historial.save()) lanza
\* TransactionManagementError
TransaccionRota(falla, ns) == falla \in PuntosDeFallo \/ ns = "fallo_bd"

\* estado de la base al salir del bloque atomico
Transaccion(bd, reserva, nueva_fecha, usuario, ahora_, falla, nc, ns) ==
  LET nueva == ReservaReprogramada(reserva, nueva_fecha, usuario, ahora_)
      bd1 == [bd EXCEPT !.reservas[reserva.id] = nueva]
      bd2 == [bd1 EXCEPT !.historial =
                Append(bd1.historial, FilaHistorial(reserva, nueva_fecha, usuario, ahora_))]
      bd3 == IF ns = "ok" THEN [bd2 EXCEPT !.solicitudes = bd2.solicitudes + 1] ELSE bd2
      bd4 == [bd3 EXCEPT !.historial[Len(bd3.historial)].notificacion_enviada =
                            (nc /\ ns = "ok")]
  IN CASE falla = "guardar_reserva" -> Rollback(bd, bd)
       [] falla = "crear_historial" -> Rollback(bd, bd1)
       [] ns = "fallo_bd" -> Rollback(bd, bd2)
       [] falla = "guardar_historial" -> Rollback(bd, bd3)
       [] OTHER -> bd4

\* respuesta de la vista al salir del bloque: reprogramar deja escapar la excepcion,
\* gestion la captura y responde ERROR_INTERNO
RespuestaCommit(vista, falla, nc, ns) ==
  IF TransaccionRota(falla, ns)
  THEN Respuesta(500, IF vista = "gestion" THEN "ERROR_INTERNO" ELSE "EXCEPCION", None)
  ELSE Respuesta(200, "OK", Some(<<nc, ns = "ok">>))

\* ------------------------------------------------- acciones de las vistas
\* una peticion nueva ocupa el primer hueco libre (los huecos son intercambiables)
PrimerLibre(p) == p = "p1" \/ pc["p1"] # "libre"

\* permisos, carga de la reserva y serializer.is_valid
Iniciar(p, vista, u, b, f) ==
  /\ pc[p] = "libre"
  /\ PrimerLibre(p)
  /\ iniciadas < MaxPeticiones
  /\ iniciadas' = iniciadas + 1
  /\ \E ord \in OrdenesDB(reglas) :
       LET acceso == Acceso(vista, u, b)
           errores == is_valid(reglas, ord, ahora, u, reservas[b], f)
       IN IF acceso # 0
          THEN /\ pc' = [pc EXCEPT ![p] = "libre"]
               /\ resp' = Respuesta(acceso, "PERMISO", None)
               /\ pet' = [pet EXCEPT ![p] = SinPeticion]
               /\ obj' = [obj EXCEPT ![p] = SinObjeto]
          ELSE IF errores # <<>>
          THEN /\ pc' = [pc EXCEPT ![p] = "libre"]
               /\ resp' = Respuesta(400, errores[1], None)
               /\ pet' = [pet EXCEPT ![p] = SinPeticion]
               /\ obj' = [obj EXCEPT ![p] = SinObjeto]
          ELSE /\ pc' = [pc EXCEPT ![p] = "validada"]
               /\ resp' = resp
               /\ pet' = [pet EXCEPT ![p] =
                            [vista |-> vista, usuario |-> u, reserva_id |-> b, nueva_fecha |-> f]]
               /\ obj' = [obj EXCEPT ![p] = reservas[b]]
  /\ UNCHANGED <<reservas, historial, solicitudes, reglas, ahora, consulta, veredicto>>

\* comprobacion de disponibilidad previa a escribir
VerificarDisponibilidad(p) ==
  /\ pc[p] = "validada"
  /\ LET d == IF pet[p].vista = "reprogramar"
              THEN _is_fecha_disponible(reservas, pet[p].nueva_fecha, obj[p])
              ELSE _verificar_disponibilidad_completa(reservas, pet[p].nueva_fecha, obj[p])
     IN CASE d = "True" ->
               /\ pc' = [pc EXCEPT ![p] = "disponible"]
               /\ UNCHANGED <<resp, pet, obj>>
          [] d = "False" ->
               /\ pc' = [pc EXCEPT ![p] = "libre"]
               /\ resp' = Respuesta(400, "FECHA_NO_DISPONIBLE", None)
               /\ pet' = [pet EXCEPT ![p] = SinPeticion]
               /\ obj' = [obj EXCEPT ![p] = SinObjeto]
          [] OTHER ->
               /\ pc' = [pc EXCEPT ![p] = "libre"]
               /\ resp' = Respuesta(500, d, None)
               /\ pet' = [pet EXCEPT ![p] = SinPeticion]
               /\ obj' = [obj EXCEPT ![p] = SinObjeto]
  /\ UNCHANGED <<reservas, historial, solicitudes, reglas, ahora, iniciadas,
                 consulta, veredicto>>

\* bloque atomico: guardar reserva, crear historial, notificar, guardar historial;
\* si falla antes de notificar, las notificaciones no se intentan
Reprogramar(p, falla, nc, ns) ==
  /\ pc[p] = "disponible"
  /\ falla \in {"guardar_reserva", "crear_historial"} => (~nc /\ ns = "fallo")
  /\ LET bd == Transaccion(BD(reservas, historial, solicitudes), obj[p], pet[p].nueva_fecha,
                           pet[p].usuario, ahora, falla, nc, ns)
     IN /\ reservas' = bd.reservas
        /\ historial' = bd.historial
        /\ solicitudes' = bd.solicitudes
  /\ pc' = [pc EXCEPT ![p] = "libre"]
  /\ resp' = RespuestaCommit(pet[p].vista, falla, nc, ns)
  /\ pet' = [pet EXCEPT ![p] = SinPeticion]
  /\ obj' = [obj EXCEPT ![p] = SinObjeto]
  /\ UNCHANGED <<reglas, ahora, iniciadas, consulta, veredicto>>

\* ------------------------------------------------- reglas
activar(id) ==
  /\ id \in DOMAIN reglas /\ ~reglas[id].activa
  /\ reglas' = [reglas EXCEPT ![id].activa = TRUE]
  /\ UNCHANGED <<reservas, historial, solicitudes, ahora, pc, pet, obj, resp, iniciadas,
                 consulta, veredicto>>

desactivar(id) ==
  /\ id \in DOMAIN reglas /\ reglas[id].activa
  /\ reglas' = [reglas EXCEPT ![id].activa = FALSE]
  /\ UNCHANGED <<reservas, historial, solicitudes, ahora, pc, pet, obj, resp, iniciadas,
                 consulta, veredicto>>

Next ==
  \/ \E p \in Procs, vista \in Vistas, u \in Usuarios, b \in ReservaIds, f \in NuevasFechas :
       Iniciar(p, vista, u, b, f)
  \/ \E p \in Procs : VerificarDisponibilidad(p)
  \/ \E p \in Procs, falla \in PuntosDeFallo \cup {"ninguna"}, nc \in BOOLEAN,
        ns \in ResultadosSoporte :
       Reprogramar(p, falla, nc, ns)
  \/ \E id \in ReglasConmutables : activar(id)
  \/ \E id \in ReglasConmutables : desactivar(id)

Spec == Init /\ [][Next]_vars

\* ------------------------------------------------- evaluacion directa del validador
\* Entradas acotadas: almacenes de hasta MaxReglasAlmacen filas del catalogo,
\* variantes de la reserva 1 e historial del dia.
UsuariosEval == {"cli", "adm", "ope", NULL}
FechasEval == {0, 23, 24, 25, 58, 154, 17521}
RolesEval == {"ALL", "CLIENTE", "OPERADOR", "ADMIN"}
AlmacenesEval == {Almacen(S) : S \in {T \in SUBSET CatalogoIds : Cardinality(T) <= MaxReglasAlmacen}}
ReservasEval ==
  {[b \in ReservaIds |->
      IF b = 1 THEN [ReservaNueva(1) EXCEPT !.estado = e, !.numero_reprogramaciones = n]
      ELSE ReservaNueva(b)] : e \in {"PENDIENTE", "CANCELADA"}, n \in {0, 2, 3}}
HistorialesEval ==
  {<<>>, <<[reserva |-> 2, fecha_anterior |-> 106, fecha_nueva |-> 130,
            reprogramado_por |-> "cli", notificacion_enviada |-> TRUE, created_at |-> 0]>>}

InitEval ==
  /\ reservas \in ReservasEval
  /\ historial \in HistorialesEval
  /\ solicitudes = 0
  /\ reglas \in AlmacenesEval
  /\ ahora = 0
  /\ pc = [p \in Procs |-> "libre"]
  /\ pet = [p \in Procs |-> SinPeticion]
  /\ obj = [p \in Procs |-> SinObjeto]
  /\ resp = SinRespuesta
  /\ iniciadas = 0
  /\ consulta = SinConsulta
  /\ veredicto = SinVeredicto

\* variante: la evaluacion apunta la reprogramacion en la reserva evaluada
Evaluar_escribe(u, b, f) ==
  /\ consulta.op = NULL
  /\ \E ord \in OrdenesDB(reglas) :
       veredicto' = validar_reprogramacion_completa(reglas, ord, reservas, historial, ahora,
                                                    u, reservas[b], f)
  /\ consulta' = [SinConsulta EXCEPT !.op = "evaluar", !.usuario = u, !.reserva_id = b,
                                     !.nueva_fecha = f]
  /\ reservas' = [reservas EXCEPT ![b].numero_reprogramaciones = @ + 1]
  /\ UNCHANGED <<historial, solicitudes, reglas, ahora, pc, pet, obj, resp, iniciadas>>

\* ValidadorReprogramacionDinamico(usuario).validar_reprogramacion_completa(reserva, fecha)
Evaluar(u, b, f) ==
  /\ consulta.op = NULL
  /\ \E ord \in OrdenesDB(reglas) :
       veredicto' = validar_reprogramacion_completa(reglas, ord, reservas, historial, ahora,
                                                    u, reservas[b], f)
  /\ consulta' = [SinConsulta EXCEPT !.op = "evaluar", !.usuario = u, !.reserva_id = b,
                                     !.nueva_fecha = f]
  /\ UNCHANGED <<reservas, historial, solicitudes, reglas, ahora, pc, pet, obj, resp,
                 iniciadas>>

\* ReglasReprogramacion.obtener_regla_activa(tipo_regla, rol)
Resolver(tipo_regla, rol) ==
  /\ consulta.op = NULL
  /\ \E ord \in OrdenesDB(reglas) :
       veredicto' = [SinVeredicto EXCEPT !.regla = obtener_regla_activa(reglas, ord, tipo_regla, rol)]
  /\ consulta' = [SinConsulta EXCEPT !.op = "resolver", !.tipo_regla = tipo_regla, !.rol = rol]
  /\ UNCHANGED <<reservas, historial, solicitudes, reglas, ahora, pc, pet, obj, resp,
                 iniciadas>>

NextEval ==
  \/ \E u \in UsuariosEval, b \in ReservaIds, f \in FechasEval : Evaluar(u, b, f)
  \/ \E t \in TiposRegla, r \in RolesEval : Resolver(t, r)

SpecEval == InitEval /\ [][NextEval]_vars

\* ------------------------------------------------- evaluacion con reglas de blackout
\* Almacenes con una variante de DIAS_BLACKOUT y, como mucho, una de HORAS_BLACKOUT.
\* Fechas: miercoles 10 h, domingo 1 h, domingo 10 h y domingo 22 h.
FechasBlackout == {58, 145, 154, 166}
AlmacenesBlackout ==
  {AlmacenBlackout({d} \cup H) :
     d \in {i \in 101..121 : VariantesBlackout[i - 100].tipo_regla = "DIAS_BLACKOUT"},
     H \in {{}} \cup {{h} : h \in {i \in 101..121 :
                                       VariantesBlackout[i - 100].tipo_regla = "HORAS_BLACKOUT"}}}

InitBlackout ==
  /\ reservas = [b \in ReservaIds |-> ReservaNueva(b)]
  /\ historial = <<>>
  /\ solicitudes = 0
  /\ reglas \in AlmacenesBlackout
  /\ ahora = 0
  /\ pc = [p \in Procs |-> "libre"]
  /\ pet = [p \in Procs |-> SinPeticion]
  /\ obj = [p \in Procs |-> SinObjeto]
  /\ resp = SinRespuesta
  /\ iniciadas = 0
  /\ consulta = SinConsulta
  /\ veredicto = SinVeredicto

NextBlackout == \E u \in {"cli", "adm"}, f \in FechasBlackout : Evaluar(u, 1, f)

SpecBlackout == InitBlackout /\ [][NextBlackout]_vars

\* ------------------------------------------------- evaluacion con reglas de penalizacion
\* Almacenes de una o dos variantes de DESCUENTO_PENALIZACION (prioridades
\* distintas) y reserva 1 con total 1000 o 250.
\* unique_together (tipo_regla, aplicable_a): dos filas de un almacen nunca
\* comparten el par
ParesDistintos(rs) ==
  \A i, j \in DOMAIN rs :
    (rs[i].tipo_regla = rs[j].tipo_regla /\ rs[i].aplicable_a = rs[j].aplicable_a) => i = j
AlmacenesPenalizacion ==
  {rs \in {AlmacenPenalizacion(S) : S \in {T \in SUBSET (201..207) : Cardinality(T) \in {1, 2}}} :
     ParesDistintos(rs)}

InitPenalizacion ==
  /\ reservas \in {[b \in ReservaIds |->
                       IF b = 1 THEN [ReservaNueva(1) EXCEPT !.total = t] ELSE ReservaNueva(b)] :
                    t \in {1000, 250}}
  /\ historial = <<>>
  /\ solicitudes = 0
  /\ reglas \in AlmacenesPenalizacion
  /\ ahora = 0
  /\ pc = [p \in Procs |-> "libre"]
  /\ pet = [p \in Procs |-> SinPeticion]
  /\ obj = [p \in Procs |-> SinObjeto]
  /\ resp = SinRespuesta
  /\ iniciadas = 0
  /\ consulta = SinConsulta
  /\ veredicto = SinVeredicto

NextPenalizacion == \E u \in {"cli", "adm", "ope", NULL}, f \in {58, 154} : Evaluar(u, 1, f)

SpecPenalizacion == InitPenalizacion /\ [][NextPenalizacion]_vars

\* ------------------------------------------------- evaluacion repetida y recomendaciones
\* Almacenes de hasta MaxReglasAlmacen filas de ReglasSug, la reserva 1 nueva o
\* ya en su limite, fechas deseadas miercoles 10 h de la semana 0 y de la semana 1.
ReglasSug == {1, 4, 5, 7, 8, 10, 11}
FechasSug == {58, 226}
FechasRepetidas == {25, 58, 154}
CantidadesSug == {0, 1, 3, 7}
AlmacenesSug == {Almacen(S) : S \in {T \in SUBSET ReglasSug : Cardinality(T) <= MaxReglasAlmacen}}

InitSug ==
  /\ reservas \in {[b \in ReservaIds |->
                       IF b = 1 THEN [ReservaNueva(1) EXCEPT !.numero_reprogramaciones = n]
                       ELSE ReservaNueva(b)] : n \in {0, 2}}
  /\ historial = <<>>
  /\ solicitudes = 0
  /\ reglas \in AlmacenesSug
  /\ ahora = 0
  /\ pc = [p \in Procs |-> "libre"]
  /\ pet = [p \in Procs |-> SinPeticion]
  /\ obj = [p \in Procs |-> SinObjeto]
  /\ resp = SinRespuesta
  /\ iniciadas = 0
  /\ consulta = SinConsulta
  /\ veredicto = SinVeredicto

\* segunda llamada a validar_reprogramacion_completa con los mismos argumentos,
\* dt horas despues de la primera y sin cambios en reglas, reservas ni historial
Reevaluar(dt) ==
  /\ consulta.op = "evaluar"
  /\ ahora' = ahora + dt
  /\ \E ord \in OrdenesDB(reglas) :
       veredicto' = validar_reprogramacion_completa(reglas, ord, reservas, historial, ahora',
                                                    consulta.usuario, reservas[consulta.reserva_id],
                                                    consulta.nueva_fecha)
  /\ consulta' = [consulta EXCEPT !.op = "reevaluar"]
  /\ UNCHANGED <<reservas, historial, solicitudes, reglas, pc, pet, obj, resp, iniciadas>>

\* GeneradorRecomendaciones.sugerir_fechas_alternativas(reserva, fecha_deseada, usuario, cantidad)
Sugerir(u, b, f, c) ==
  /\ consulta.op = NULL
  /\ \E ord \in OrdenesDB(reglas) :
       \E r \in {sugerir_fechas_alternativas(reglas, ord, reservas, historial, ahora, u,
                                              reservas[b], f, c)} :
          veredicto' = [SinVeredicto EXCEPT !.falla = r.falla, !.sugerencias = r.sugerencias]
  /\ consulta' = [SinConsulta EXCEPT !.op = "sugerir", !.usuario = u, !.reserva_id = b,
                                     !.nueva_fecha = f, !.cantidad = c]
  /\ UNCHANGED <<reservas, historial, solicitudes, reglas, ahora, pc, pet, obj, resp,
                 iniciadas>>

NextSug ==
  \/ \E u \in {"cli", "adm"}, b \in {1, 2}, f \in FechasRepetidas : Evaluar(u, b, f)
  \/ \E dt \in {0, 1} : Reevaluar(dt)
  \/ \E u \in {"cli", "adm"}, b \in {1, 2}, f \in FechasSug, c \in CantidadesSug :
        Sugerir(u, b, f, c)

SpecSug == InitSug /\ [][NextSug]_vars

\* ------------------------------------------------- almacen de reglas
\* Escrituras sobre ReglasReprogramacion: el ViewSet (create, update,
\* activar, desactivar), las acciones del admin (activar_reglas,
\* desactivar_reglas, duplicar_reglas) y el comando de configuracion inicial.
\* En esta especificacion `iniciadas` es la secuencia de la clave primaria,
\* `pet[p]` la fila que la peticion p lleva en memoria y `resp.detalle` el
\* resultado de la ultima escritura.
MaxFilas == 3
TiposAlmacen == {"TIEMPO_MINIMO"}
RolesAlmacen == {"ALL", "CLIENTE"}

\* Meta.unique_together = [['tipo_regla', 'aplicable_a']]: ninguna otra fila
\* del almacen tiene el par de `fila`
unique_together_ausente(rs, fila) == TRUE
unique_together(rs, fila) ==
  \A i \in DOMAIN rs \ {fila.id} :
    ~(rs[i].tipo_regla = fila.tipo_regla /\ rs[i].aplicable_a = fila.aplicable_a)

\* perfil 'basico' del comando de configuracion
reglas_basicas ==
  <<Regla(0, "TIEMPO_MINIMO", "ALL", Some(24), None, NULL, NULL, TRUE, 1),
    Regla(0, "LIMITE_REPROGRAMACIONES", "CLIENTE", Some(3), None, NULL, NULL, TRUE, 1),
    Regla(0, "DIAS_BLACKOUT", "ALL", None, None, T_DOMINGO, NULL, TRUE, 2)>>

InitReglas ==
  /\ reservas = [b \in ReservaIds |-> ReservaNueva(b)]
  /\ historial = <<>>
  /\ solicitudes = 0
  /\ reglas = <<>>
  /\ ahora = 0
  /\ pc = [p \in Procs |-> "libre"]
  /\ pet = [p \in Procs |-> SinRegla]
  /\ obj = [p \in Procs |-> SinObjeto]
  /\ resp = SinRespuesta
  /\ iniciadas = 0
  /\ consulta = SinConsulta
  /\ veredicto = SinVeredicto

\* inserciones que las peticiones en curso aun pueden hacer
Pendientes == Cardinality({p \in Procs : pc[p] # "libre" /\ pet[p].id = 0})

EnMemoria(p, fila) ==
  /\ pc[p] = "libre"
  /\ pc' = [pc EXCEPT ![p] = "full_clean"]
  /\ pet' = [pet EXCEPT ![p] = fila]
  /\ UNCHANGED <<reservas, historial, solicitudes, reglas, ahora, obj, resp, iniciadas,
                 consulta, veredicto>>

\* POST /reglas-reprogramacion/: fila nueva, sin clave todavia
create(p, tipo, rol, activa) ==
  /\ iniciadas + Pendientes < MaxFilas
  /\ EnMemoria(p, Regla(0, tipo, rol, Some(1), None, NULL, NULL, activa, 1))

\* PATCH /reglas-reprogramacion/{id}/: la fila cargada con otro aplicable_a
update(p, id, rol) ==
  /\ id \in DOMAIN reglas
  /\ reglas[id].tipo_regla \in TiposAlmacen
  /\ rol # reglas[id].aplicable_a
  /\ EnMemoria(p, [reglas[id] EXCEPT !.aplicable_a = rol])

\* duplicar_reglas: copia de la fila con el mismo par, desactivada, prioridad + 1
duplicar_reglas(p, id) ==
  /\ iniciadas + Pendientes < MaxFilas
  /\ id \in DOMAIN reglas
  /\ EnMemoria(p, [reglas[id] EXCEPT !.id = 0, !.activa = FALSE,
                                     !.prioridad = reglas[id].prioridad + 1])

\* save(): full_clean() consulta la unicidad antes de escribir
full_clean(p) ==
  /\ pc[p] = "full_clean"
  /\ IF unique_together(reglas, pet[p])
     THEN pc' = [pc EXCEPT ![p] = "guardar"] /\ UNCHANGED <<pet, resp>>
     ELSE /\ pc' = [pc EXCEPT ![p] = "libre"]
          /\ pet' = [pet EXCEPT ![p] = SinRegla]
          /\ resp' = Respuesta(400, "ValidationError", None)
  /\ UNCHANGED <<reservas, historial, solicitudes, reglas, ahora, obj, iniciadas,
                 consulta, veredicto>>

\* super().save(): INSERT, o UPDATE de la fila con esa clave; el indice unico
\* de la tabla rechaza el par repetido
guardar(p) ==
  /\ pc[p] = "guardar"
  /\ pc' = [pc EXCEPT ![p] = "libre"]
  /\ pet' = [pet EXCEPT ![p] = SinRegla]
  /\ IF ~unique_together(reglas, pet[p])
     THEN /\ resp' = Respuesta(500, "IntegrityError", None)
          /\ UNCHANGED <<reglas, iniciadas>>
     ELSE /\ resp' = Respuesta(200, "OK", None)
          /\ IF pet[p].id = 0
             THEN /\ iniciadas' = iniciadas + 1
                  /\ reglas' = [i \in DOMAIN reglas \cup {iniciadas + 1} |->
                                  IF i = iniciadas + 1 THEN [pet[p] EXCEPT !.id = i]
                                  ELSE reglas[i]]
             ELSE /\ reglas' = [i \in DOMAIN reglas \cup {pet[p].id} |->
                                  IF i = pet[p].id THEN pet[p] ELSE reglas[i]]
                  /\ UNCHANGED iniciadas
  /\ UNCHANGED <<reservas, historial, solicitudes, ahora, obj, consulta, veredicto>>

\* acciones del admin: queryset.update(activa=...) sobre las filas elegidas
activar_reglas(S, valor) ==
  /\ S # {} /\ S \subseteq DOMAIN reglas
  /\ \E i \in S : reglas[i].activa # valor
  /\ reglas' = [i \in DOMAIN reglas |-> IF i \in S THEN [reglas[i] EXCEPT !.activa = valor]
                                        ELSE reglas[i]]
  /\ UNCHANGED <<reservas, historial, solicitudes, ahora, pc, pet, obj, resp, iniciadas,
                 consulta, veredicto>>

\* get_or_create(tipo_regla, aplicable_a, defaults) por cada fila del perfil,
\* dentro de transaction.atomic(), tras borrar todo si reset
RECURSIVE _crear_reglas_por_perfil(_, _, _)
_crear_reglas_por_perfil(rs, perfil, sec) ==
  IF perfil = <<>> THEN [reglas |-> rs, sec |-> sec]
  ELSE IF unique_together(rs, Head(perfil))
       THEN _crear_reglas_por_perfil(
              [i \in DOMAIN rs \cup {sec + 1} |->
                 IF i = sec + 1 THEN [Head(perfil) EXCEPT !.id = i] ELSE rs[i]],
              Tail(perfil), sec + 1)
       ELSE _crear_reglas_por_perfil(rs, Tail(perfil), sec)

configurar_reglas_reprogramacion(reset) ==
  /\ \E r \in {_crear_reglas_por_perfil(IF reset THEN <<>> ELSE reglas, reglas_basicas,
                                        iniciadas)} :
       /\ r.sec + Pendientes <= MaxFilas
       /\ r.reglas # reglas
       /\ reglas' = r.reglas
       /\ iniciadas' = r.sec
  /\ UNCHANGED <<reservas, historial, solicitudes, ahora, pc, pet, obj, resp,
                 consulta, veredicto>>

NextReglas ==
  \/ \E p \in Procs, tipo \in TiposAlmacen, rol \in RolesAlmacen : create(p, tipo, rol, TRUE)
  \/ \E p \in Procs, id \in 1..MaxFilas, rol \in RolesAlmacen : update(p, id, rol)
  \/ \E p \in Procs, id \in 1..MaxFilas : duplicar_reglas(p, id)
  \/ \E p \in Procs : full_clean(p)
  \/ \E p \in Procs : guardar(p)
  \/ \E id \in 1..MaxFilas : activar(id)
  \/ \E id \in 1..MaxFilas : desactivar(id)
  \/ \E S \in SUBSET (1..MaxFilas), valor \in BOOLEAN : activar_reglas(S, valor)
  \/ \E reset \in BOOLEAN : configurar_reglas_reprogramacion(reset)

SpecReglas == InitReglas /\ [][NextReglas]_vars

\* ------------------------------------------------- vigencia de las reglas
\* Reglas 1 (TIEMPO_MINIMO ALL 24) y 4 (DIAS_BLACKOUT ALL domingo) con y sin
\* ventana de vigencia; el reloj antes de la ventana (0) o dentro de ella (150).
\* clean() exige inicio < fin cuando estan los dos.
ConVigencia(regla, inicio, fin) ==
  [regla EXCEPT !.fecha_inicio_vigencia = inicio, !.fecha_fin_vigencia = fin]
VentanasVigencia ==
  {<<None, None>>, <<Some(100), Some(200)>>, <<Some(100), None>>, <<None, Some(100)>>}
AlmacenesVigencia ==
  {[i \in S |-> ConVigencia(Catalogo[i], v[1], v[2])] :
     S \in {{1}, {4}, {1, 4}}, v \in VentanasVigencia}
FechasVigencia == {23, 58, 154, 173, 322}

InitVigencia ==
  /\ reservas = [b \in ReservaIds |-> ReservaNueva(b)]
  /\ historial = <<>>
  /\ solicitudes = 0
  /\ reglas \in AlmacenesVigencia
  /\ ahora \in {0, 150}
  /\ pc = [p \in Procs |-> "libre"]
  /\ pet = [p \in Procs |-> SinPeticion]
  /\ obj = [p \in Procs |-> SinObjeto]
  /\ resp = SinRespuesta
  /\ iniciadas = 0
  /\ consulta = SinConsulta
  /\ veredicto = SinVeredicto

NextVigencia ==
  \/ \E u \in {"cli", "adm"}, f \in FechasVigencia : Evaluar(u, 1, f)
  \/ \E t \in {"TIEMPO_MINIMO", "DIAS_BLACKOUT"}, r \in {"ALL", "CLIENTE"} : Resolver(t, r)

SpecVigencia == InitVigencia /\ [][NextVigencia]_vars

\* ------------------------------------------------- limite diario
\* Las dos vistas de reprogramacion escriben el historial, una peticion tras
\* otra; el reloj avanza de
\* dia en dia y la evaluacion se consulta en cualquier momento. Almacenes con
\* una regla LIMITE_DIARIO: CLIENTE 1, CLIENTE 2 o ALL 1.
MaxDias == 2
AlmacenesDiario ==
  {[i \in {6} |-> [Catalogo[6] EXCEPT !.aplicable_a = a, !.valor_numerico = Some(l)]] :
     <<a, l>> \in {<<"CLIENTE", 1>>, <<"CLIENTE", 2>>, <<"ALL", 1>>}}

InitDiario ==
  /\ reservas = [b \in ReservaIds |-> ReservaNueva(b)]
  /\ historial = <<>>
  /\ solicitudes = 0
  /\ reglas \in AlmacenesDiario
  /\ ahora = 0
  /\ pc = [p \in Procs |-> "libre"]
  /\ pet = [p \in Procs |-> SinPeticion]
  /\ obj = [p \in Procs |-> SinObjeto]
  /\ resp = SinRespuesta
  /\ iniciadas = 0
  /\ consulta = SinConsulta
  /\ veredicto = SinVeredicto

\* timezone.now() pasa al dia siguiente
Reloj ==
  /\ ahora < 24 * (MaxDias - 1)
  /\ ahora' = ahora + 24
  /\ UNCHANGED <<reservas, historial, solicitudes, reglas, pc, pet, obj, resp, iniciadas,
                 consulta, veredicto>>

NextDiario ==
  \/ \E p \in {"p1"}, vista \in Vistas, u \in Usuarios, b \in {1, 2}, f \in {58, 154} :
       Iniciar(p, vista, u, b, f)
  \/ \E p \in {"p1"} : VerificarDisponibilidad(p)
  \/ \E p \in {"p1"}, falla \in {"crear_historial", "ninguna"} :
       Reprogramar(p, falla, falla = "ninguna", IF falla = "ninguna" THEN "ok" ELSE "fallo")
  \/ Reloj
  \/ \E u \in Usuarios, f \in {58, 154} : Evaluar(u, 1, f)

SpecDiario == InitDiario /\ [][NextDiario]_vars

\* ------------------------------------------------- cancelar y reprogramar
\* Peticiones de cancelar y de reprogramar sobre la reserva 1, entrelazadas.
\* cancelar carga la reserva con get_object() y la guarda entera con save().
cancelar(p, u, b) ==
  /\ pc[p] = "libre"
  /\ PrimerLibre(p)
  /\ iniciadas < MaxPeticiones
  /\ iniciadas' = iniciadas + 1
  /\ IF Acceso("reprogramar", u, b) # 0
     THEN /\ resp' = Respuesta(Acceso("reprogramar", u, b), "PERMISO", None)
          /\ UNCHANGED <<pc, pet, obj>>
     ELSE /\ pc' = [pc EXCEPT ![p] = "cancelando"]
          /\ pet' = [pet EXCEPT ![p] = [vista |-> "cancelar", usuario |-> u,
                                        reserva_id |-> b, nueva_fecha |-> 0]]
          /\ obj' = [obj EXCEPT ![p] = reservas[b]]
          /\ resp' = resp
  /\ UNCHANGED <<reservas, historial, solicitudes, reglas, ahora, consulta, veredicto>>

\* reserva.estado = 'CANCELADA'; reserva.save()
cancelar_save(p) ==
  /\ pc[p] = "cancelando"
  /\ reservas' = [reservas EXCEPT ![obj[p].id] = [obj[p] EXCEPT !.estado = "CANCELADA"]]
  /\ pc' = [pc EXCEPT ![p] = "libre"]
  /\ resp' = Respuesta(200, "CANCELADA", None)
  /\ pet' = [pet EXCEPT ![p] = SinPeticion]
  /\ obj' = [obj EXCEPT ![p] = SinObjeto]
  /\ UNCHANGED <<historial, solicitudes, reglas, ahora, iniciadas, consulta, veredicto>>

NextCancelar ==
  \/ \E p \in Procs, vista \in Vistas, u \in Usuarios, f \in {58, 154} :
       Iniciar(p, vista, u, 1, f)
  \/ \E p \in Procs : VerificarDisponibilidad(p)
  \/ \E p \in Procs, falla \in {"crear_historial", "ninguna"} :
       Reprogramar(p, falla, falla = "ninguna", IF falla = "ninguna" THEN "ok" ELSE "fallo")
  \/ \E p \in Procs, u \in Usuarios : cancelar(p, u, 1)
  \/ \E p \in Procs : cancelar_save(p)

SpecCancelar == Init /\ [][NextCancelar]_vars

\* ------------------------------------------------- una instancia, dos llamadas
\* Un mismo ValidadorReprogramacionDinamico evalua dos veces. El veredicto
\* devuelve 'errores': self.errores, la propia lista de la instancia, y la
\* llamada siguiente empieza con self.errores.clear(): `veredicto` es el primer
\* veredicto tal como lo ve quien lo recibio.
InitInstancia ==
  /\ reservas \in {[b \in ReservaIds |->
                       IF b = 1 THEN [ReservaNueva(1) EXCEPT !.numero_reprogramaciones = n]
                       ELSE ReservaNueva(b)] : n \in {0, 2}}
  /\ historial = <<>>
  /\ solicitudes = 0
  /\ reglas \in {Almacen(S) : S \in SUBSET {1, 4, 5}}
  /\ ahora = 0
  /\ pc = [p \in Procs |-> "libre"]
  /\ pet = [p \in Procs |-> SinPeticion]
  /\ obj = [p \in Procs |-> SinObjeto]
  /\ resp = SinRespuesta
  /\ iniciadas = 0
  /\ consulta = SinConsulta
  /\ veredicto = SinVeredicto

\* contenido, tras otra llamada sobre la instancia, de la lista que el primer
\* veredicto referencia: la lista se vacio y se lleno con los errores nuevos
ErroresTrasOtraLlamada(errores_devueltos, errores_nuevos) == errores_nuevos

\* segunda llamada a validar_reprogramacion_completa sobre la misma instancia
SegundaLlamada(b, f) ==
  /\ consulta.op = "evaluar" /\ ~veredicto.falla
  /\ \E ord \in OrdenesDB(reglas) :
     \E otro \in {validar_reprogramacion_completa(reglas, ord, reservas, historial, ahora,
                                                  consulta.usuario, reservas[b], f)} :
       veredicto' = [veredicto EXCEPT
                       !.errores = ErroresTrasOtraLlamada(veredicto.errores, otro.errores)]
  /\ consulta' = [consulta EXCEPT !.op = "segunda_llamada", !.reserva_id = b, !.nueva_fecha = f]
  /\ UNCHANGED <<reservas, historial, solicitudes, reglas, ahora, pc, pet, obj, resp,
                 iniciadas>>

NextInstancia ==
  \/ \E u \in {"cli", "adm"}, b \in {1, 2}, f \in FechasRepetidas : Evaluar(u, b, f)
  \/ \E b \in {1, 2}, f \in FechasRepetidas : SegundaLlamada(b, f)

SpecInstancia == InitInstancia /\ [][NextInstancia]_vars

\* ------------------------------------------------- propiedades
\* p sale del bloque atomico en este paso
PasoCommit(p) == pc[p] = "disponible" /\ pc'[p] = "libre"
\* p sale del bloque atomico y la vista responde 200
CommitExitoso(p) == PasoCommit(p) /\ resp'.status = 200
FilasDe(hist, b) == {i \in 1..Len(hist) : hist[i].reserva = b}

\* C1: de dos peticiones de reprogramacion sobre la misma reserva que la cargan
\* antes de que ninguna escriba, solo una termina con exito: ningun commit con
\* exito escribe a partir de una copia de la reserva que ya no es la almacenada.
C1_UnSoloExito ==
  [][\A p \in Procs : CommitExitoso(p) => obj[p] = reservas[obj[p].id]]_vars

\* dos filas de historial para una reserva cuyo contador almacenado vale 1
C1_DosExitosObsoletos ==
  \E b \in ReservaIds :
    /\ Cardinality(FilasDe(historial, b)) = 2
    /\ reservas[b].numero_reprogramaciones = 1

\* C2: si el bloque atomico falla en cualquiera de sus pasos, la reserva y el
\* historial almacenados quedan como estaban; si termina, quedan escritos los dos:
\* la reserva con la nueva fecha y su fila de historial.
C2_Atomicidad ==
  [][\A p \in Procs : PasoCommit(p) =>
       IF resp'.status = 200
       THEN /\ reservas'[obj[p].id].fecha_inicio = pet[p].nueva_fecha
            /\ reservas'[obj[p].id].estado = "REPROGRAMADA"
            /\ Len(historial') = Len(historial) + 1
            /\ historial'[Len(historial')].reserva = obj[p].id
       ELSE /\ reservas' = reservas
            /\ historial' = historial]_vars

\* una peticion fallo dentro del bloque atomico despues de un commit anterior
C2_FalloTrasCommit ==
  /\ resp.status = 500
  /\ resp.detalle \in {"ERROR_INTERNO", "EXCEPCION"}
  /\ Len(historial) = 1
  /\ iniciadas = 2

\* C3: ninguna vista confirma una reprogramacion sin que el validador dinamico,
\* evaluado para la misma reserva, fecha y usuario sobre el mismo estado
\* almacenado, devuelva valida = TRUE.
C3_SoloConVeredictoValido ==
  [][\A p \in Procs : CommitExitoso(p) =>
       \E ord \in OrdenesDB(reglas) :
         validar_reprogramacion_completa(reglas, ord, reservas, historial, ahora,
                                         pet[p].usuario, reservas[obj[p].id],
                                         pet[p].nueva_fecha).valida]_vars

\* la reserva 1 quedo reprogramada a un domingo con la regla DIAS_BLACKOUT activa
C3_CommitEnBlackout ==
  /\ reservas[1].estado = "REPROGRAMADA"
  /\ DiaSemana(reservas[1].fecha_inicio) = 6
  /\ reglas[4].activa

\* C4: fecha_original, vacia al crear la reserva, pasa a ser la fecha de inicio
\* previa a la primera reprogramacion y ninguna reprogramacion posterior la cambia.
C4_FechaOriginal ==
  \A b \in ReservaIds :
    reservas[b].fecha_original =
      IF reservas[b].numero_reprogramaciones = 0 /\ FilasDe(historial, b) = {}
      THEN None ELSE Some(FechaInicial(b))

\* una reserva reprogramada dos veces conserva la fecha original
C4_DosReprogramaciones ==
  \E b \in ReservaIds :
    /\ reservas[b].numero_reprogramaciones = 2
    /\ reservas[b].fecha_inicio # FechaInicial(b)
    /\ reservas[b].fecha_original = Some(FechaInicial(b))

\* C5: un commit con exito deja la reserva con la nueva fecha, estado
\* REPROGRAMADA, el contador una unidad por encima del que tenia al cargarla y
\* el usuario como autor; anade una sola fila de historial con la fecha previa y
\* la nueva; las demas reservas y las filas anteriores no cambian.
C5_EfectoDelCommit ==
  [][\A p \in Procs : CommitExitoso(p) =>
       LET b == obj[p].id
           n == Len(historial)
       IN /\ reservas'[b].fecha_inicio = pet[p].nueva_fecha
          /\ reservas'[b].estado = "REPROGRAMADA"
          /\ reservas'[b].numero_reprogramaciones = obj[p].numero_reprogramaciones + 1
          /\ reservas'[b].reprogramado_por = pet[p].usuario
          /\ Len(historial') = n + 1
          /\ historial'[n + 1].reserva = b
          /\ historial'[n + 1].fecha_anterior = obj[p].fecha_inicio
          /\ historial'[n + 1].fecha_nueva = pet[p].nueva_fecha
          /\ \A c \in ReservaIds \ {b} : reservas'[c] = reservas[c]
          /\ SubSeq(historial', 1, n) = historial]_vars

\* un commit con exito sobre la reserva 2, hecho por el administrador
C5_CommitHecho ==
  /\ resp.status = 200
  /\ Len(historial) = 1
  /\ historial[1].reserva = 2
  /\ historial[1].fecha_anterior = FechaInicial(2)
  /\ reservas[2].reprogramado_por = "adm"

\* C6: para todo resultado de las dos notificaciones (cliente y soporte, cada una
\* con exito o fallo) la reprogramacion queda escrita, la vista responde 200 con
\* los dos indicadores iguales a los resultados y notificacion_enviada es TRUE
\* solo si las dos tuvieron exito.
C6_NotificacionesNoRevierten ==
  [][\A p \in Procs, nc \in BOOLEAN, ns \in ResultadosSoporte :
       Reprogramar(p, "ninguna", nc, ns) =>
         /\ resp'.status = 200
         /\ resp'.notificaciones = Some(<<nc, ns = "ok">>)
         /\ reservas'[obj[p].id].fecha_inicio = pet[p].nueva_fecha
         /\ Len(historial') = Len(historial) + 1
         /\ historial'[Len(historial')].notificacion_enviada = (nc /\ ns = "ok")]_vars

\* C7: cuando la comprobacion de disponibilidad previa a escribir no deja pasar
\* la peticion, la vista responde 400 de disponibilidad y no cambia reservas,
\* historial ni solicitudes de soporte.
C7_DisponibilidadRechaza ==
  [][\A p \in Procs : (pc[p] = "validada" /\ pc'[p] = "libre") =>
       /\ resp'.status = 400
       /\ resp'.detalle = "FECHA_NO_DISPONIBLE"
       /\ reservas' = reservas
       /\ historial' = historial
       /\ solicitudes' = solicitudes]_vars

\* la comprobacion de disponibilidad termino en excepcion y la vista respondio 500
C7_ExcepcionEnDisponibilidad ==
  /\ resp.status = 500
  /\ resp.detalle = "AttributeError"

\* rol al que apunta aplicable_a, segun la tabla de roles del modelo de datos
Coincide(aplicable_a, rol) ==
  \/ aplicable_a = rol
  \/ aplicable_a = "ALL"
  \/ aplicable_a = "CLIENTE_OPERADOR" /\ rol \in {"CLIENTE", "OPERADOR"}
  \/ aplicable_a = "OPERADOR_ADMIN" /\ rol \in {"OPERADOR", "ADMIN"}
Candidatas(tipo_regla, rol) ==
  {i \in DOMAIN reglas : /\ reglas[i].activa
                         /\ reglas[i].tipo_regla = tipo_regla
                         /\ Coincide(reglas[i].aplicable_a, rol)}

\* C8: obtener_regla_activa(T, r) devuelve una regla activa de tipo T aplicable
\* a r y de prioridad minima entre ellas; devuelve None exactamente cuando
\* ninguna regla activa de tipo T es aplicable a r.
C8_ReglaResuelta ==
  consulta.op = "resolver" =>
    LET M == Candidatas(consulta.tipo_regla, consulta.rol)
    IN IF M = {} THEN veredicto.regla = SinRegla
       ELSE /\ veredicto.regla \in M
            /\ \A j \in M : reglas[veredicto.regla].prioridad <= reglas[j].prioridad

\* con dos reglas aplicables se devolvio la de menor numero de prioridad
C8_EligeMenorPrioridad ==
  /\ consulta.op = "resolver"
  /\ consulta.rol = "OPERADOR"
  /\ Candidatas(consulta.tipo_regla, consulta.rol) = {1, 13}
  /\ veredicto.regla = 1

\* C9: en el recorrido roles del usuario + ['ALL'], una regla dirigida a un rol
\* propio del usuario gobierna antes que una regla ALL: la regla ALL solo
\* gobierna si ninguna regla activa de ese tipo apunta a un rol del usuario.
C9_RolPropioAntesQueALL ==
  (consulta.op = "evaluar" /\ ~veredicto.falla) =>
    \A i \in 1..Len(veredicto.reglas_aplicadas) :
      LET a == veredicto.reglas_aplicadas[i]
      IN reglas[a.regla].aplicable_a = "ALL" =>
           ~\E j \in DOMAIN reglas :
               /\ reglas[j].activa
               /\ reglas[j].tipo_regla = a.tipo
               /\ EnSeq(reglas[j].aplicable_a, RolesDe(consulta.usuario))

\* el administrador queda gobernado por la regla ALL de 24 horas aunque existe
\* una regla ADMIN de 2 horas: su reprogramacion a 24 horas vista es rechazada
C9_AdminGobernadoPorALL ==
  /\ consulta.op = "evaluar"
  /\ consulta.usuario = "adm"
  /\ consulta.nueva_fecha = 24
  /\ DOMAIN reglas = {1, 3}
  /\ EnSeq("TIEMPO_MINIMO", veredicto.errores)

\* C10: para toda configuracion de reglas, fecha y usuario, la evaluacion de una
\* reserva CANCELADA devuelve un veredicto con valida = FALSE que contiene el
\* error de reserva cancelada.
C10_CanceladaSiempreInvalida ==
  (consulta.op = "evaluar" /\ reservas[consulta.reserva_id].estado = "CANCELADA") =>
    /\ ~veredicto.falla
    /\ ~veredicto.valida
    /\ EnSeq("CANCELADA", veredicto.errores)

\* la evaluacion de una reserva cancelada termino en excepcion, sin veredicto
C10_CanceladaSinVeredicto ==
  /\ consulta.op = "evaluar"
  /\ reservas[consulta.reserva_id].estado = "CANCELADA"
  /\ veredicto.falla

\* C11: con una unica regla TIEMPO_MINIMO de 24 horas para ALL y ninguna de
\* CLIENTE, la evaluacion de un cliente informa la violacion de antelacion
\* minima para toda fecha candidata <= ahora + 24 h (incluida exactamente
\* ahora + 24 h) y no la informa para ninguna fecha posterior.
C11_AntelacionMinima24 ==
  (consulta.op = "evaluar" /\ consulta.usuario = "cli" /\ DOMAIN reglas = {1})
    => /\ ~veredicto.falla
       /\ EnSeq("TIEMPO_MINIMO", veredicto.errores) <=> consulta.nueva_fecha <= ahora + 24

C11_LimiteExactoRechazado ==
  /\ consulta.op = "evaluar" /\ consulta.usuario = "cli" /\ DOMAIN reglas = {1}
  /\ consulta.nueva_fecha = ahora + 24
  /\ EnSeq("TIEMPO_MINIMO", veredicto.errores)

\* ningun orden de filas de la base resuelve una regla del tipo para el usuario
SinReglaDelTipo(tipo_regla, usuario) ==
  \A ord \in OrdenesDB(reglas) :
     ReglaPorRoles(reglas, ord, tipo_regla, _obtener_roles_usuario(usuario)).regla = SinRegla

\* C12: cuando ninguna regla activa del tipo se resuelve para el usuario, la
\* evaluacion aplica los valores por defecto: antelacion minima de 24 horas,
\* antelacion maxima de 1 anio y como mucho 3 reprogramaciones por reserva.
C12_ValoresPorDefecto ==
  (consulta.op = "evaluar" /\ ~veredicto.falla)
    => /\ (SinReglaDelTipo("TIEMPO_MINIMO", consulta.usuario)
             /\ consulta.nueva_fecha <= ahora + 24)
          => EnSeq("TIEMPO_MINIMO", veredicto.errores)
       /\ (SinReglaDelTipo("TIEMPO_MAXIMO", consulta.usuario)
             /\ consulta.nueva_fecha > ahora + 365 * 24)
          => EnSeq("TIEMPO_MAXIMO", veredicto.errores)
       /\ (SinReglaDelTipo("LIMITE_REPROGRAMACIONES", consulta.usuario)
             /\ reservas[consulta.reserva_id].numero_reprogramaciones >= 3)
          => EnSeq("LIMITE_REPROGRAMACIONES", veredicto.errores)

C12_SinReglasTodoValido ==
  /\ consulta.op = "evaluar" /\ DOMAIN reglas = {}
  /\ consulta.nueva_fecha = ahora + 23
  /\ reservas[consulta.reserva_id].numero_reprogramaciones = 3
  /\ veredicto.valida

\* regla LIMITE_REPROGRAMACIONES que gobierna al usuario de la consulta en el
\* orden de filas ord
ReglaLimite(ord) ==
  ReglaPorRoles(reglas, ord, "LIMITE_REPROGRAMACIONES", _obtener_roles_usuario(consulta.usuario)).regla

ValorGobernante(tipo_regla) ==
  LET r == ReglaPorRoles(reglas, CHOOSE ord \in OrdenesDB(reglas) : TRUE, tipo_regla,
                         _obtener_roles_usuario(consulta.usuario)).regla
  IN IF r = SinRegla THEN [hay |-> FALSE, v |-> VNone]
     ELSE [hay |-> TRUE, v |-> obtener_valor(reglas[r])]
\* la lista contiene, en cualquier combinacion de mayusculas, el nombre del dia t
ContieneDia(l, t) ==
  \E i \in 1..Len(l) : l[i].k = "str" /\ Lower(l[i].s) = nombres_dias[DiaSemana(t) + 1]

\* C14: con una regla DIAS_BLACKOUT gobernante cuyo valor es una lista que
\* contiene el nombre de un dia de la semana (en mayusculas o minusculas), la
\* evaluacion informa la violacion de dia para toda fecha candidata de ese dia;
\* con una regla gobernante cuyo valor no es una lista, no informa violacion
\* de dia y no falla.
C14_DiaBlackout ==
  (consulta.op = "evaluar" /\ ValorGobernante("DIAS_BLACKOUT").hay)
    => LET v == ValorGobernante("DIAS_BLACKOUT").v
       IN /\ (v.k = "list" /\ ContieneDia(v.l, consulta.nueva_fecha))
               => ~veredicto.falla /\ EnSeq("DIAS_BLACKOUT", veredicto.errores)
          /\ v.k # "list"
               => ~veredicto.falla /\ ~EnSeq("DIAS_BLACKOUT", veredicto.errores)

C14_ListaMixtaFalla ==
  /\ consulta.op = "evaluar" /\ ValorGobernante("DIAS_BLACKOUT").hay
  /\ ValorGobernante("DIAS_BLACKOUT").v.k = "list"
  /\ ContieneDia(ValorGobernante("DIAS_BLACKOUT").v.l, consulta.nueva_fecha)
  /\ veredicto.falla

\* nombre de algun dia de la semana, en cualquier combinacion de mayusculas
EsNombreDeDia(e) == e.k = "str" /\ \E i \in 1..7 : Lower(e.s) = nombres_dias[i]
\* valor mal formado de DIAS_BLACKOUT: no es una lista, o es una lista no vacia
\* sin ningun nombre de dia
DiasMalFormado(v) ==
  v.k # "list" \/ (v.l # <<>> /\ \A i \in 1..Len(v.l) : ~EsNombreDeDia(v.l[i]))
\* valor mal formado de HORAS_BLACKOUT: no es una lista, o es una lista no vacia
\* sin ninguna hora entera
HorasMalFormado(v) ==
  v.k # "list" \/ (v.l # <<>> /\ \A i \in 1..Len(v.l) : v.l[i].k # "int")

\* C15: para todo valor mal formado de una regla DIAS_BLACKOUT u HORAS_BLACKOUT
\* (numero, booleano, texto plano, o lista cuyos elementos no son nombres de dia
\* u horas enteras), la evaluacion termina y devuelve veredicto: no lanza
\* excepcion y no agrega violacion de blackout por esa regla.
C15_MalFormadoSeIgnora ==
  (consulta.op = "evaluar")
    => LET d == ValorGobernante("DIAS_BLACKOUT")
           h == ValorGobernante("HORAS_BLACKOUT")
       IN /\ (d.hay /\ DiasMalFormado(d.v))
               => ~veredicto.falla /\ ~EnSeq("DIAS_BLACKOUT", veredicto.errores)
          /\ (h.hay /\ HorasMalFormado(h.v))
               => ~veredicto.falla /\ ~EnSeq("HORAS_BLACKOUT", veredicto.errores)

C15_ListaDeNumerosFalla ==
  /\ consulta.op = "evaluar" /\ DOMAIN reglas = {105}
  /\ veredicto.falla

\* C16: para toda reserva, fecha deseada, usuario y cantidad, las sugerencias
\* devueltas son como mucho cantidad, cada fecha devuelta es valida al evaluarla
\* en el mismo estado de los almacenes, y estan ordenadas por score no creciente.
C16_SugerenciasValidasOrdenadas ==
  (consulta.op = "sugerir" /\ ~veredicto.falla)
    => LET l == veredicto.sugerencias
       IN /\ Len(l) <= consulta.cantidad
          /\ \A i \in 1..Len(l) :
               \E ord \in OrdenesDB(reglas) :
                  validar_reprogramacion_completa(reglas, ord, reservas, historial, ahora,
                                                  consulta.usuario, reservas[consulta.reserva_id],
                                                  l[i].fecha).valida
          /\ \A i \in 1..(Len(l) - 1) : l[i].score >= l[i + 1].score

C16_TresSugerenciasReordenadas ==
  /\ consulta.op = "sugerir" /\ consulta.cantidad = 3 /\ 8 \in DOMAIN reglas
  /\ Len(veredicto.sugerencias) = 3
  /\ veredicto.sugerencias[2].score > veredicto.sugerencias[3].score
  /\ veredicto.sugerencias[2].fecha > veredicto.sugerencias[3].fecha

\* C17: dos llamadas de evaluacion con la misma reserva, fecha candidata y
\* usuario, sin cambios en reglas, reservas ni historial entre ellas, devuelven
\* veredictos identicos (valida, errores, disponibilidad, penalizacion, reglas
\* aplicadas y metadatos).
C17_Idempotencia ==
  [][(consulta.op = "evaluar" /\ consulta'.op = "reevaluar") => veredicto' = veredicto]_vars

\* la segunda llamada, una hora despues, rechaza la fecha que la primera acepto
C17_SegundaLlamadaDistinta ==
  /\ consulta.op = "reevaluar" /\ DOMAIN reglas = {1} /\ consulta.nueva_fecha = 25
  /\ ahora = 1
  /\ ~veredicto.valida /\ veredicto.errores = <<"TIEMPO_MINIMO">>

\* C18: la evaluacion y la generacion de sugerencias dejan sin cambios las
\* reglas, todas las reservas, el historial de reprogramaciones y las
\* solicitudes de soporte, para toda entrada.
C18_SoloLectura ==
  [][(consulta'.op \in {"evaluar", "reevaluar", "sugerir"} /\ consulta' # consulta)
       => UNCHANGED <<reglas, reservas, historial, solicitudes>>]_vars

C18_ConsultasHechas ==
  /\ consulta.op \in {"reevaluar", "sugerir"}
  /\ reglas # <<>> /\ veredicto # SinVeredicto

ValorAplicado(tipo_regla) ==
  LET ra == veredicto.reglas_aplicadas
      S == {i \in 1..Len(ra) : ra[i].tipo = tipo_regla}
  IN IF S = {} THEN VNone ELSE obtener_valor(reglas[ra[CHOOSE i \in S : TRUE].regla])
Si(c, e) == IF c THEN <<e>> ELSE <<>>
\* errores que corresponden a las comprobaciones violadas, en el orden de evaluacion
ErroresEsperados ==
  LET f == consulta.nueva_fecha
      r == reservas[consulta.reserva_id]
      tmin == ValorAplicado("TIEMPO_MINIMO")
      tmax == ValorAplicado("TIEMPO_MAXIMO")
      lim == ValorAplicado("LIMITE_REPROGRAMACIONES")
      ldia == ValorAplicado("LIMITE_DIARIO")
      dias == ValorAplicado("DIAS_BLACKOUT")
      horas == ValorAplicado("HORAS_BLACKOUT")
      serv == ValorAplicado("SERVICIOS_RESTRINGIDOS")
      cap == ValorAplicado("CAPACIDAD_MAXIMA")
      hoy == Cardinality({i \in 1..Len(historial) :
                            /\ historial[i].reprogramado_por = consulta.usuario
                            /\ historial[i].created_at \div 24 = ahora \div 24})
      otras == Cardinality({b \in DOMAIN reservas \ {r.id} :
                              /\ reservas[b].fecha_inicio \div 24 = f \div 24
                              /\ reservas[b].estado \in {"PENDIENTE", "PAGADA", "REPROGRAMADA"}})
      lineas == {s \in Servicios : Detalles(r.id)[s] > 0 /\ serv.k = "list"
                                   /\ \E i \in 1..Len(serv.l) : serv.l[i] = EStr(s)}
  IN Si(f <= ahora, "FECHA_PASADA")
     \o Si(f > ahora + 2 * 365 * 24, "MAS_DE_2_ANIOS")
     \o Si(r.estado = "CANCELADA", "CANCELADA")
     \o Si(EsNumero(tmin) /\ f * 100 <= ahora * 100 + tmin.c, "TIEMPO_MINIMO")
     \o Si(EsNumero(tmax) /\ f * 100 > ahora * 100 + tmax.c, "TIEMPO_MAXIMO")
     \o Si(EsNumero(lim) /\ r.numero_reprogramaciones * 100 >= lim.c, "LIMITE_REPROGRAMACIONES")
     \o Si(EsNumero(ldia) /\ consulta.usuario # NULL /\ hoy * 100 >= ldia.c, "LIMITE_DIARIO")
     \o Si(dias.k = "list" /\ ContieneDia(dias.l, f), "DIAS_BLACKOUT")
     \o Si(horas.k = "list" /\ \E i \in 1..Len(horas.l) : horas.l[i] = ENum(f % 24),
           "HORAS_BLACKOUT")
     \o [i \in 1..Cardinality(lineas) |-> "SERVICIO_RESTRINGIDO"]
     \o Si(EsNumero(cap) /\ otras * 100 >= cap.c, "CAPACIDAD_MAXIMA")

\* C20: la evaluacion ejecuta todas las comprobaciones aunque una anterior haya
\* fallado: los errores del veredicto contienen un mensaje por cada comprobacion
\* violada (fecha pasada, techo de dos anios, reserva cancelada, antelacion
\* minima y maxima, limite por reserva, limite diario, dia y hora de blackout,
\* cada linea de servicio restringido, capacidad), valida es cierto exactamente
\* cuando no hay errores, y ni la disponibilidad ni la penalizacion cambian valida.
C20_ErroresAcumulados ==
  (consulta.op = "evaluar" /\ ~veredicto.falla)
    => /\ veredicto.errores = ErroresEsperados
       /\ veredicto.valida <=> veredicto.errores = <<>>

C20_VariosErroresJuntos ==
  /\ consulta.op = "evaluar" /\ ~veredicto.falla
  /\ veredicto.errores = <<"FECHA_PASADA", "CANCELADA", "TIEMPO_MINIMO",
                           "LIMITE_REPROGRAMACIONES">>

\* C21: tras cualquier secuencia de escrituras sobre el almacen de reglas
\* (create, update, activar, desactivar, activacion y desactivacion en bloque,
\* duplicar, configuracion inicial, dos de ellas a la vez incluidas) hay a lo
\* sumo una regla activa por cada par (tipo_regla, aplicable_a).
C21_UnaActivaPorPar ==
  \A i, j \in DOMAIN reglas :
     (/\ reglas[i].activa /\ reglas[j].activa
      /\ reglas[i].tipo_regla = reglas[j].tipo_regla
      /\ reglas[i].aplicable_a = reglas[j].aplicable_a) => i = j
\* dos altas simultaneas del mismo par pasaron full_clean; la segunda choca con
\* el indice unico y el almacen conserva una sola regla activa de ese par
C21_AltaSimultaneaRechazada ==
  /\ resp.detalle = "IntegrityError"
  /\ \E i \in DOMAIN reglas : reglas[i].activa
  /\ Cardinality(DOMAIN reglas) >= 2

\* el instante t cae dentro de la ventana de vigencia de la regla (una ventana
\* sin definir contiene todo instante)
EnVigencia(regla, t) ==
  /\ regla.fecha_inicio_vigencia = None \/ regla.fecha_inicio_vigencia[1] <= t
  /\ regla.fecha_fin_vigencia = None \/ t <= regla.fecha_fin_vigencia[1]

\* C22: una regla activa con ventana de vigencia definida que no contiene el
\* instante actual es inaplicable: nunca es la regla resuelta ni figura entre
\* las reglas aplicadas de una evaluacion, y no produce ningun error.
C22_FueraDeVigenciaNoRige ==
  /\ consulta.op = "resolver" =>
       (veredicto.regla = SinRegla \/ EnVigencia(reglas[veredicto.regla], ahora))
  /\ (consulta.op = "evaluar" /\ ~veredicto.falla) =>
       /\ \A i \in 1..Len(veredicto.reglas_aplicadas) :
            EnVigencia(reglas[veredicto.reglas_aplicadas[i].regla], ahora)
       /\ \A e \in {"TIEMPO_MINIMO", "DIAS_BLACKOUT"} :
            EnSeq(e, veredicto.errores) =>
              \E j \in DOMAIN reglas : /\ reglas[j].tipo_regla = e /\ reglas[j].activa
                                       /\ EnVigencia(reglas[j], ahora)
\* la unica regla del almacen empieza a regir en la hora 100; a la hora 0 una
\* fecha a 23 horas vista se rechaza por esa regla
C22_ReglaFuturaRechaza ==
  /\ consulta.op = "evaluar" /\ ahora = 0 /\ consulta.nueva_fecha = 23
  /\ DOMAIN reglas = {1}
  /\ reglas[1].fecha_inicio_vigencia = Some(100)
  /\ veredicto.errores = <<"TIEMPO_MINIMO">>

\* k-esima sonda de la busqueda alrededor de la fecha f: dias -7..-1 y 1..14, y
\* en cada dia las horas 0, +1, -1, +2, -2
SondaEnOrden(f, k) ==
  f + 24 * (IF (k - 1) \div 5 < 7 THEN (k - 1) \div 5 - 7 ELSE (k - 1) \div 5 - 6)
    + <<0, 1, -1, 2, -2>>[((k - 1) % 5) + 1]
\* posiciones, entre las 105 sondas, cuya evaluacion es valida en el estado actual
SondasValidas ==
  {k \in 1..105 :
     validar_reprogramacion_completa(reglas, CHOOSE ord \in OrdenesDB(reglas) : TRUE, reservas,
                                     historial, ahora, consulta.usuario,
                                     reservas[consulta.reserva_id],
                                     SondaEnOrden(consulta.nueva_fecha, k)).valida}

\* C23: sugerir_fechas_alternativas sondea las fechas en orden fijo (dias de -7
\* a +14 sin el 0 y, en cada dia, horas 0, +1, -1, +2, -2) y devuelve exactamente
\* las primeras min(cantidad, numero de sondas validas) sondas validas de ese
\* orden, reordenadas; la fecha deseada nunca se devuelve y la busqueda no pasa
\* de 105 sondas.
C23_PrimerasSondasValidas ==
  (consulta.op = "sugerir" /\ ~veredicto.falla)
    => \E V \in {SondasValidas} :
       \E m \in {IF consulta.cantidad < Cardinality(V) THEN consulta.cantidad
                 ELSE Cardinality(V)} :
         /\ Len(veredicto.sugerencias) = m
         /\ {veredicto.sugerencias[i].fecha : i \in 1..m}
              = {SondaEnOrden(consulta.nueva_fecha, k) :
                   k \in {j \in V : Cardinality({h \in V : h < j}) < m}}
         /\ \A i \in 1..m : veredicto.sugerencias[i].fecha # consulta.nueva_fecha
\* se pidieron tres sugerencias, las tres primeras sondas no eran validas y se
\* devolvieron tres sondas posteriores
C23_SaltaSondasInvalidas ==
  /\ consulta.op = "sugerir" /\ consulta.cantidad = 3
  /\ Len(veredicto.sugerencias) = 3
  /\ \A i \in 1..3 : \A k \in 1..3 :
        veredicto.sugerencias[i].fecha # SondaEnOrden(consulta.nueva_fecha, k)

\* dias enteros de la distancia absoluta entre la fecha candidata y la deseada
DiasDeDistancia(fecha_candidata, fecha_deseada) ==
  (IF fecha_candidata >= fecha_deseada THEN fecha_candidata - fecha_deseada
   ELSE fecha_deseada - fecha_candidata) \div 24

\* C24: el score de toda sugerencia devuelta es max(0, 10 - d) + (5 si esta
\* disponible, 0 si no) + (-2 si aplica penalizacion, +2 si no), con d el numero
\* absoluto de dias entre la fecha deseada y la candidata; dos candidatas a la
\* misma distancia antes y despues de la fecha deseada, con igual
\* disponibilidad y penalizacion, reciben por tanto el mismo score.
C24_ScoreSimetrico ==
  (consulta.op = "sugerir" /\ ~veredicto.falla)
    => /\ \A i \in 1..Len(veredicto.sugerencias) :
            \E s \in {veredicto.sugerencias[i]} :
            \E d \in {DiasDeDistancia(s.fecha, consulta.nueva_fecha)} :
              s.score = (IF 10 - d > 0 THEN 10 - d ELSE 0)
                          + (IF s.disponible THEN 5 ELSE 0)
                          + (IF s.penalizacion.aplica_penalizacion THEN -2 ELSE 2)
       /\ \A i, j \in 1..Len(veredicto.sugerencias) :
            \E s \in {veredicto.sugerencias[i]}, t \in {veredicto.sugerencias[j]} :
              (/\ s.fecha - consulta.nueva_fecha = consulta.nueva_fecha - t.fecha
               /\ s.disponible = t.disponible
               /\ s.penalizacion.aplica_penalizacion = t.penalizacion.aplica_penalizacion)
                => s.score = t.score
\* 25 horas antes y 25 horas despues de la fecha deseada, con la misma
\* disponibilidad y penalizacion, reciben scores distintos
C24_MismaDistanciaDistintoScore ==
  /\ consulta.op = "sugerir"
  /\ \E i, j \in 1..Len(veredicto.sugerencias) :
       /\ veredicto.sugerencias[i].fecha = consulta.nueva_fecha - 25
       /\ veredicto.sugerencias[j].fecha = consulta.nueva_fecha + 25
       /\ veredicto.sugerencias[i].disponible = veredicto.sugerencias[j].disponible
       /\ veredicto.sugerencias[i].penalizacion = veredicto.sugerencias[j].penalizacion
       /\ veredicto.sugerencias[i].score < veredicto.sugerencias[j].score

\* valor entero de la regla LIMITE_DIARIO que gobierna al usuario (-1 si ninguna
\* regla lo gobierna o su valor no es numerico)
LimiteDiarioDe(usuario) ==
  LET r == ReglaPorRoles(reglas, CHOOSE ord \in OrdenesDB(reglas) : TRUE, "LIMITE_DIARIO",
                         _obtener_roles_usuario(usuario)).regla
  IN IF r # SinRegla /\ EsNumero(obtener_valor(reglas[r]))
     THEN IntDe(obtener_valor(reglas[r]).c) ELSE -1
\* filas del historial creadas por el usuario en el dia del reloj
FilasDeHoy(usuario) ==
  {i \in 1..Len(historial) : /\ historial[i].reprogramado_por = usuario
                             /\ historial[i].created_at \div 24 = ahora \div 24}

\* C25: con una regla LIMITE_DIARIO de valor L que gobierna al usuario, desde
\* que existen L filas de historial creadas por ese usuario en el dia actual
\* (por commits sobre cualquier reserva), toda evaluacion de ese usuario en ese
\* dia devuelve valida = FALSE; las filas de otros usuarios o de otros dias no
\* cuentan.
C25_LimiteDiario ==
  [][(consulta.op = NULL /\ consulta'.op = "evaluar")
       => \E l \in {LimiteDiarioDe(consulta'.usuario)} :
          \E n \in {Cardinality(FilasDeHoy(consulta'.usuario))} :
            /\ (l >= 0 /\ n >= l) => (~veredicto'.falla /\ ~veredicto'.valida
                                      /\ EnSeq("LIMITE_DIARIO", veredicto'.errores))
            /\ (l >= 0 /\ n < l) => ~EnSeq("LIMITE_DIARIO", veredicto'.errores)]_vars
\* el cliente hizo dos reprogramaciones hoy sobre dos reservas, el limite es 2 y
\* su evaluacion se rechaza por el limite diario
C25_DosCommitsDeHoy ==
  /\ consulta.op = "evaluar" /\ consulta.usuario = "cli"
  /\ reglas[6].valor_numerico = Some(2)
  /\ Len(historial) = 2
  /\ historial[1].reserva # historial[2].reserva
  /\ \A i \in 1..2 : historial[i].reprogramado_por = "cli" /\ historial[i].created_at = ahora
  /\ EnSeq("LIMITE_DIARIO", veredicto.errores)
\* la fila de ayer del cliente y la fila de hoy del administrador no cuentan
C25_FilasAjenasNoCuentan ==
  /\ consulta.op = "evaluar" /\ consulta.usuario = "cli" /\ ahora = 24
  /\ reglas[6].valor_numerico = Some(1)
  /\ \E i, j \in 1..Len(historial) :
        /\ historial[i].reprogramado_por = "cli" /\ historial[i].created_at = 0
        /\ historial[j].reprogramado_por = "adm" /\ historial[j].created_at = 24
  /\ ~EnSeq("LIMITE_DIARIO", veredicto.errores)

\* C26: en todo estado alcanzable, tambien tras commits entrelazados sobre la
\* misma reserva, el numero de filas de historial de una reserva es igual a su
\* numero_reprogramaciones (la reserva se crea con contador 0 y solo la cambia
\* el commit de reprogramacion).
C26_HistorialIgualContador ==
  \A b \in ReservaIds :
     Cardinality(FilasDe(historial, b)) = reservas[b].numero_reprogramaciones
\* dos commits entrelazados de usuarios distintos sobre la reserva 1: dos filas,
\* contador 1
C26_MasFilasQueContador ==
  /\ Len(historial) = 2
  /\ historial[1].reserva = 1 /\ historial[2].reserva = 1
  /\ historial[1].reprogramado_por # historial[2].reprogramado_por
  /\ reservas[1].numero_reprogramaciones = 1

\* filas de historial de la reserva b en orden de creacion
HistorialDe(b) == SelectSeq(historial, LAMBDA h : h.reserva = b)

\* C27: en todo estado alcanzable el historial de una reserva, en orden de
\* creacion, es una cadena: la fecha_anterior de cada fila es la fecha_nueva de
\* la fila precedente, la fecha_anterior de la primera es la fecha_original de
\* la reserva y la fecha_nueva de la ultima es su fecha_inicio actual.
C27_HistorialEnCadena ==
  \A b \in ReservaIds :
    \E h \in {HistorialDe(b)} :
      Len(h) > 0 =>
        /\ \A i \in 2..Len(h) : h[i].fecha_anterior = h[i - 1].fecha_nueva
        /\ Some(h[1].fecha_anterior) = reservas[b].fecha_original
        /\ h[Len(h)].fecha_nueva = reservas[b].fecha_inicio
\* dos filas seguidas de la reserva 1 parten de la misma fecha: la segunda no
\* continua la primera
C27_EslabonRoto ==
  \E h \in {HistorialDe(1)} :
    /\ Len(h) = 2
    /\ h[1].fecha_anterior = h[2].fecha_anterior
    /\ h[1].fecha_nueva # h[2].fecha_anterior

\* C28: una vez que el estado almacenado de una reserva es CANCELADA, ningun
\* commit de reprogramacion cambia su estado, su fecha_inicio ni su
\* numero_reprogramaciones almacenados, en todo entrelazado de una peticion de
\* cancelar y una de reprogramar sobre la misma reserva (incluida la
\* reprogramacion que cargo la reserva antes de guardarse la cancelacion).
C28_CanceladaNoSeReprograma ==
  [][\A p \in Procs : PasoCommit(p) =>
       \A b \in ReservaIds :
          reservas[b].estado = "CANCELADA" =>
            /\ reservas'[b].estado = "CANCELADA"
            /\ reservas'[b].fecha_inicio = reservas[b].fecha_inicio
            /\ reservas'[b].numero_reprogramaciones = reservas[b].numero_reprogramaciones]_vars
\* la reserva 1 ya esta cancelada y una reprogramacion que la cargo antes, aun
\* no cancelada, esta a punto de escribir
C28_ReprogramacionConCopiaPrevia ==
  /\ reservas[1].estado = "CANCELADA"
  /\ \E p \in Procs : /\ pc[p] = "disponible" /\ obj[p].id = 1
                      /\ obj[p].estado = "PENDIENTE"

\* C29: un veredicto devuelto por la evaluacion no cambia por una llamada
\* posterior sobre la misma instancia del validador: los errores del veredicto
\* anterior quedan como se devolvieron.
C29_VeredictoEstable ==
  [][consulta'.op = "segunda_llamada" => veredicto' = veredicto]_vars
\* el primer veredicto se devolvio valido y sin errores; tras evaluar otra fecha
\* con la misma instancia, ese mismo veredicto muestra el error de la segunda
C29_ValidoConErrores ==
  /\ consulta.op = "segunda_llamada"
  /\ veredicto.valida
  /\ veredicto.errores = <<"DIAS_BLACKOUT">>

\* C30: obtener_regla_activa es determinista: para un almacen, un tipo y un rol
\* dados devuelve siempre la misma regla, tambien cuando dos reglas activas
\* aplicables tienen la misma prioridad (como TIEMPO_MINIMO ALL y CLIENTE, las
\* dos con prioridad 1, en el perfil 'estricto'), de modo que dos evaluaciones
\* de la misma entrada nunca difieren en su veredicto.
C30_ResolucionDeterminista ==
  /\ consulta.op = "resolver" =>
       \A ord \in OrdenesDB(reglas) :
          obtener_regla_activa(reglas, ord, consulta.tipo_regla, consulta.rol) = veredicto.regla
  /\ consulta.op = "evaluar" =>
       \A ord \in OrdenesDB(reglas) :
          validar_reprogramacion_completa(reglas, ord, reservas, historial, ahora,
                                          consulta.usuario, reservas[consulta.reserva_id],
                                          consulta.nueva_fecha) = veredicto
\* con TIEMPO_MINIMO ALL 24 y CLIENTE 48, ambas de prioridad 1, la fecha a 25
\* horas vista del cliente se acepto, y con el otro orden de filas se rechaza
C30_MismaEntradaOtroVeredicto ==
  /\ consulta.op = "evaluar" /\ consulta.usuario = "cli" /\ consulta.nueva_fecha = 25
  /\ DOMAIN reglas = {1, 2}
  /\ veredicto.valida
  /\ \E ord \in OrdenesDB(reglas) :
        ~validar_reprogramacion_completa(reglas, ord, reservas, historial, ahora, "cli",
                                         reservas[consulta.reserva_id], 25).valida

====
